---- MODULE Spec2Model ----
(***************************************************************************)
(* Model of the Swedish News Article Unlocker userscript                   *)
(* (src/pressreader_userscript.js, class SwedishNewsUnlocker): paywall     *)
(* detection with a deferred recheck, the unlock button, the search        *)
(* strategy generator and the sequential multi-strategy catalog search.    *)
(*                                                                         *)
(* Texts are modelled by what the code inspects: a word is a tuple of      *)
(* one-character strings, a title is a sequence of words (cleanText        *)
(* collapses whitespace and trims, so words are separated by one space),   *)
(* a raw date is a sequence of tokens.                                     *)
(***************************************************************************)
EXTENDS Integers, Sequences, FiniteSets, TLC

\* ------------------------------------------------------------------ bounds

\* pending observer timers (setTimeout(checkForPaywall, 1000)) kept apart
MaxObsTimers == 1
\* pending deferred rechecks (setTimeout(..., 3000)) kept apart
MaxRecheckTimers == 1
\* pending fade-out timers (setTimeout(..., 300)) kept apart
MaxFadeTimers == 2
\* resolution contexts (activations of the async unlockArticle) kept apart
MaxResolutions == 2
\* instances of the content script's class created in one document
MaxInstances == 2
\* longest title, in words, fed to the strategy generator
MaxTitleWords == 3
\* words of a text given to extractKeywords
MaxTextWords == 6

\* ----------------------------------------------------------- small helpers

Min(a, b) == IF a < b THEN a ELSE b

Range(s) == {s[i] : i \in 1..Len(s)}

\* Array.prototype.slice(0, n)
Slice(s, n) == SubSeq(s, 1, Min(n, Len(s)))

\* --------------------------------------------------------- extractKeywords

stopWords == {
    <<"o","c","h">>, <<"e","l","l","e","r">>, <<"m","e","n">>, <<"a","t","t">>,
    <<"s","o","m">>, <<"f","ö","r">>, <<"p","å">>, <<"a","v">>, <<"t","i","l","l">>,
    <<"f","r","å","n">>, <<"m","e","d">>, <<"v","i","d">>, <<"o","m">>, <<"i">>,
    <<"å","t">>, <<"u","n","d","e","r">>, <<"ö","v","e","r">>, <<"u","t","a","n">>,
    <<"m","e","l","l","a","n">>, <<"g","e","n","o","m">>, <<"e","f","t","e","r">>,
    <<"f","ö","r","e">>, <<"s","e","d","a","n">>, <<"d","å">>, <<"n","ä","r">>,
    <<"v","a","r">>, <<"h","ä","r">>, <<"d","ä","r">>, <<"d","e","n">>, <<"d","e","t">>,
    <<"d","e">>, <<"d","e","m">>, <<"d","e","s","s","a">>, <<"d","e","t","t","a">>,
    <<"n","u">>, <<"s","å">>, <<"e","n">>, <<"e","t","t">>, <<"ä","r">>,
    <<"h","a","r">>, <<"h","a","d","e">>, <<"s","k","a">>,
    <<"s","k","u","l","l","e">>, <<"k","a","n">>, <<"k","u","n","d","e">> }

\* the characters the test /^[a-zåäö]+$/ accepts
LowerAlpha ==
    { "a","b","c","d","e","f","g","h","i","j","k","l","m","n","o","p","q","r",
      "s","t","u","v","w","x","y","z","å","ä","ö" }

Upper == <<"A","B","C","D","E","F","G","H","I","J","K","L","M","N","O","P","Q","R",
           "S","T","U","V","W","X","Y","Z","Å","Ä","Ö">>
Lower == <<"a","b","c","d","e","f","g","h","i","j","k","l","m","n","o","p","q","r",
           "s","t","u","v","w","x","y","z","å","ä","ö">>

\* String.prototype.toLowerCase on one character
LowerChar(c) ==
    IF \E i \in 1..Len(Upper) : Upper[i] = c
    THEN Lower[CHOOSE i \in 1..Len(Upper) : Upper[i] = c]
    ELSE c

toLowerCase(word) == [i \in 1..Len(word) |-> LowerChar(word[i])]

\* the filter predicate of extractKeywords, on an already lower-cased word
IsKeyword(word) ==
    /\ Len(word) > 3
    /\ word \notin stopWords
    /\ \A i \in 1..Len(word) : word[i] \in LowerAlpha

RECURSIVE FilterKeywords(_)
FilterKeywords(words) ==
    IF words = <<>> THEN <<>>
    ELSE IF IsKeyword(Head(words))
         THEN <<Head(words)>> \o FilterKeywords(Tail(words))
         ELSE FilterKeywords(Tail(words))

\* text.toLowerCase().split(/\s+/).filter(...).slice(0, 5)
\* Faulty variant of extractKeywords: the list is not cut off
extractKeywordsUncut(text) ==
    FilterKeywords([i \in 1..Len(text) |-> toLowerCase(text[i])])

\* Faulty variant of extractKeywords: the last five qualifying words
extractKeywordsLastFive(text) ==
    LET all == FilterKeywords([i \in 1..Len(text) |-> toLowerCase(text[i])])
    IN  SubSeq(all, Len(all) - Min(5, Len(all)) + 1, Len(all))

extractKeywords(text) ==
    Slice(FilterKeywords([i \in 1..Len(text) |-> toLowerCase(text[i])]), 5)

\* ----------------------------------------------------------- normalizeDate

Digits == <<"0","1","2","3","4","5","6","7","8","9">>

IsDigit(c) == c \in Range(Digits)

\* \w of a JavaScript regular expression without the u flag
IsWordChar(c) ==
    \/ IsDigit(c)
    \/ c = "_"
    \/ \E i \in 1..26 : c = Upper[i] \/ c = Lower[i]

\* Number.prototype.toString for a non-negative integer
RECURSIVE NumToString(_)
NumToString(n) ==
    IF n < 10 THEN <<Digits[n + 1]>>
    ELSE NumToString(n \div 10) \o <<Digits[(n % 10) + 1]>>

\* String.prototype.padStart(2, '0')
padStart2(s) == IF Len(s) < 2 THEN <<"0">> \o s ELSE s

\* String.prototype.includes
includes(s, sub) ==
    \E i \in 1..(Len(s) - Len(sub) + 1) : SubSeq(s, i, i + Len(sub) - 1) = sub

swedishMonths == <<
    <<<<"j","a","n","u","a","r","i">>, <<"0","1">>>>,
    <<<<"f","e","b","r","u","a","r","i">>, <<"0","2">>>>,
    <<<<"m","a","r","s">>, <<"0","3">>>>,
    <<<<"a","p","r","i","l">>, <<"0","4">>>>,
    <<<<"m","a","j">>, <<"0","5">>>>,
    <<<<"j","u","n","i">>, <<"0","6">>>>,
    <<<<"j","u","l","i">>, <<"0","7">>>>,
    <<<<"a","u","g","u","s","t","i">>, <<"0","8">>>>,
    <<<<"s","e","p","t","e","m","b","e","r">>, <<"0","9">>>>,
    <<<<"o","k","t","o","b","e","r">>, <<"1","0">>>>,
    <<<<"n","o","v","e","m","b","e","r">>, <<"1","1">>>>,
    <<<<"d","e","c","e","m","b","e","r">>, <<"1","2">>>>,
    <<<<"j","a","n">>, <<"0","1">>>>,
    <<<<"f","e","b">>, <<"0","2">>>>,
    <<<<"m","a","r">>, <<"0","3">>>>,
    <<<<"a","p","r">>, <<"0","4">>>>,
    <<<<"j","u","n">>, <<"0","6">>>>,
    <<<<"j","u","l">>, <<"0","7">>>>,
    <<<<"a","u","g">>, <<"0","8">>>>,
    <<<<"s","e","p">>, <<"0","9">>>>,
    <<<<"o","k","t">>, <<"1","0">>>>,
    <<<<"n","o","v">>, <<"1","1">>>>,
    <<<<"d","e","c">>, <<"1","2">>>>
    >>

months == <<
    <<<<"0","1">>, <<"J","a","n">>>>,
    <<<<"0","2">>, <<"F","e","b">>>>,
    <<<<"0","3">>, <<"M","a","r">>>>,
    <<<<"0","4">>, <<"A","p","r">>>>,
    <<<<"0","5">>, <<"M","a","j">>>>,
    <<<<"0","6">>, <<"J","u","n">>>>,
    <<<<"0","7">>, <<"J","u","l">>>>,
    <<<<"0","8">>, <<"A","u","g">>>>,
    <<<<"0","9">>, <<"S","e","p">>>>,
    <<<<"1","0">>, <<"O","k","t">>>>,
    <<<<"1","1">>, <<"N","o","v">>>>,
    <<<<"1","2">>, <<"D","e","c">>>>
    >>

\* months[monthNumber] || monthNumber
getSwedishMonthName(monthNumber) ==
    IF \E i \in 1..Len(months) : months[i][1] = monthNumber
    THEN months[CHOOSE i \in 1..Len(months) : months[i][1] = monthNumber][2]
    ELSE monthNumber

NaN == <<"N","a","N">>

\* dateString.match(/20\d{2}/)?.[0], <<>> when there is no match
MatchYear(s) ==
    LET hits == { i \in 1..(Len(s) - 3) :
                    /\ s[i] = "2" /\ s[i + 1] = "0"
                    /\ IsDigit(s[i + 2]) /\ IsDigit(s[i + 3]) }
    IN  IF hits = {} THEN <<>>
        ELSE LET i == CHOOSE h \in hits : \A g \in hits : h <= g
             IN  SubSeq(s, i, i + 3)

\* whether /\b(\d{1,2})\b/ matches n digits at position i
DayMatchAt(s, i, n) ==
    /\ i + n - 1 <= Len(s)
    /\ \A k \in i..(i + n - 1) : IsDigit(s[k])
    /\ (i = 1 \/ ~IsWordChar(s[i - 1]))
    /\ (i + n - 1 = Len(s) \/ ~IsWordChar(s[i + n]))

\* dateString.match(/\b(\d{1,2})\b/)?.[0], <<>> when there is no match
MatchDay(s) ==
    LET hits == { i \in 1..Len(s) : DayMatchAt(s, i, 2) \/ DayMatchAt(s, i, 1) }
    IN  IF hits = {} THEN <<>>
        ELSE LET i == CHOOSE h \in hits : \A g \in hits : h <= g
             IN  IF DayMatchAt(s, i, 2) THEN SubSeq(s, i, i + 1) ELSE SubSeq(s, i, i)

\* parseInt of a digit string
DigitVal(c) == CHOOSE i \in 0..9 : Digits[i + 1] = c

RECURSIVE ToNumber(_)
ToNumber(s) ==
    IF s = <<>> THEN 0
    ELSE 10 * ToNumber(SubSeq(s, 1, Len(s) - 1)) + DigitVal(s[Len(s)])

AllDigits(s) == s # <<>> /\ \A i \in 1..Len(s) : IsDigit(s[i])

\* the words of a text, separated by single spaces
RECURSIVE Tokens(_)
Tokens(s) ==
    IF \E i \in 1..Len(s) : s[i] = " "
    THEN LET i == CHOOSE k \in 1..Len(s) :
                      s[k] = " " /\ \A g \in 1..(k - 1) : s[g] # " "
         IN  <<SubSeq(s, 1, i - 1)>> \o Tokens(SubSeq(s, i + 1, Len(s)))
    ELSE <<s>>

\* the month names of the platform's date parser
englishMonths == <<
    <<"j","a","n">>, <<"f","e","b">>, <<"m","a","r">>, <<"a","p","r">>,
    <<"m","a","y">>, <<"j","u","n">>, <<"j","u","l">>, <<"a","u","g">>,
    <<"s","e","p">>, <<"o","c","t">>, <<"n","o","v">>, <<"d","e","c">> >>

\* The month a word names for the platform's parser, 0 for none: its
\* three-letter abbreviation, in any case; a lenient engine goes by the first
\* three letters of a longer word.
EnglishMonth(word, lenient) ==
    LET low  == toLowerCase(word)
        hits == { i \in 1..12 :
                    /\ Len(low) >= 3
                    /\ SubSeq(low, 1, 3) = englishMonths[i]
                    /\ (Len(low) = 3 \/ lenient) }
    IN  IF hits = {} THEN 0 ELSE CHOOSE i \in hits : TRUE

InvalidDate == [valid |-> FALSE, d |-> 0, m |-> 0, y |-> 0]

\* new Date(dateString): the platform's parser on the shapes of text used
\* here, read in a time zone at or east of UTC.  ISO dates (YYYY-MM-DD) and
\* "D Mon YYYY" with an English month abbreviation parse on every engine; a
\* lenient engine (V8's legacy parser) also reads "15 mars 2024" by the
\* month's first three letters and, in "<word> YYYY", skips an unknown word
\* that precedes the first number.  An unknown word after a number, and
\* anything else, is an Invalid Date.
JsDateParse(s, lenient) ==
    IF /\ Len(s) = 10 /\ s[5] = "-" /\ s[8] = "-"
       /\ AllDigits(SubSeq(s, 1, 4)) /\ AllDigits(SubSeq(s, 6, 7))
       /\ AllDigits(SubSeq(s, 9, 10))
    THEN LET y == ToNumber(SubSeq(s, 1, 4))
             m == ToNumber(SubSeq(s, 6, 7))
             d == ToNumber(SubSeq(s, 9, 10))
         IN  IF m \in 1..12 /\ d \in 1..31
             THEN [valid |-> TRUE, d |-> d, m |-> m, y |-> y]
             ELSE InvalidDate
    ELSE LET t == Tokens(s)
         IN  IF /\ Len(t) = 3
                /\ AllDigits(t[1]) /\ Len(t[1]) <= 2 /\ ToNumber(t[1]) \in 1..31
                /\ AllDigits(t[3]) /\ Len(t[3]) = 4
                /\ EnglishMonth(t[2], lenient) # 0
             THEN [valid |-> TRUE, d |-> ToNumber(t[1]),
                   m |-> EnglishMonth(t[2], lenient), y |-> ToNumber(t[3])]
             ELSE IF /\ lenient
                     /\ Len(t) = 2
                     /\ t[1] # <<>> /\ \A i \in 1..Len(t[1]) : ~IsDigit(t[1][i])
                     /\ AllDigits(t[2]) /\ Len(t[2]) = 4
             THEN [valid |-> TRUE, d |-> 1,
                   m |-> IF EnglishMonth(t[1], lenient) # 0
                         THEN EnglishMonth(t[1], lenient) ELSE 1,
                   y |-> ToNumber(t[2])]
             ELSE InvalidDate

\* `${day} ${month} ${year}`
DateToken(day, month, year) == day \o <<" ">> \o month \o <<" ">> \o year

\* The first entry of swedishMonths, in insertion order, whose name occurs in
\* the lower-cased text; 0 when there is none.
FirstSwedishMonth(s) ==
    LET low  == toLowerCase(s)
        hits == { i \in 1..Len(swedishMonths) : includes(low, swedishMonths[i][1]) }
    IN  IF hits = {} THEN 0 ELSE CHOOSE h \in hits : \A g \in hits : h <= g

\* normalizeDate(dateString).  env.lenient selects the platform's date parser,
\* env.year, env.month and env.day are the date new Date() gives.  No statement of the try block
\* raises, so the catch block (today's date) is never entered: an
\* unparseable text without a Swedish month name falls through to the
\* standard formatting of the Invalid Date.
normalizeDate(dateString, env) ==
    LET date == JsDateParse(dateString, env.lenient)
        mi   == FirstSwedishMonth(dateString)
    IN  IF ~date.valid /\ mi # 0
        THEN LET year == IF MatchYear(dateString) # <<>>
                         THEN MatchYear(dateString) ELSE NumToString(env.year)
                 day  == IF MatchDay(dateString) # <<>>
                         THEN padStart2(MatchDay(dateString)) ELSE <<"0","1">>
             IN  DateToken(day, getSwedishMonthName(swedishMonths[mi][2]), year)
        ELSE IF date.valid
        THEN DateToken(padStart2(NumToString(date.d)),
                       getSwedishMonthName(padStart2(NumToString(date.m))),
                       NumToString(date.y))
        ELSE DateToken(NaN, getSwedishMonthName(NaN), NaN)

\* ------------------------------------------------ generateSearchStrategies

Sites == {"svd", "kungalvsposten", "unknown"}

\* Faulty variant of getPublicationName: a default name for other sites
getPublicationNameDefault(currentSite) ==
    CASE currentSite = "kungalvsposten" -> "Kungälvs-Posten"
      [] OTHER -> "Svenska Dagbladet"

\* siteToPublication[this.currentSite] || ''
getPublicationName(currentSite) ==
    CASE currentSite = "svd" -> "Svenska Dagbladet"
      [] currentSite = "kungalvsposten" -> "Kungälvs-Posten"
      [] OTHER -> ""

\* A boolean query, by the parts its template string is built from: the
\* quoted phrases (title, author, publication, date), the parenthesised
\* AND-group of bare terms, and whether each term of the group carries the
\* wildcard suffix.  An absent part is empty.  literal is the whole query
\* when it is no boolean expression ('url_search').
Query(title, author, publication, date, group, wildcard, literal) ==
    [ title |-> title, author |-> author, publication |-> publication,
      date |-> date, group |-> group, wildcard |-> wildcard, literal |-> literal ]

NameTitlePubDate  == "Titel + Publikation + Datum"
NameTitlePub      == "Titel + Publikation"
NameKeywordsPub   == "Nyckelord + Publikation"
NameAuthorPubDate == "Författare + Publikation + Datum"
NameExactTitle    == "Exakt titel"
NameWildcardPub   == "Wildcard + Publikation"
NameUrl           == "URL-baserad"

\* { ...articleData, publication, search_query }
SearchData(articleData, publication, query) ==
    [ title |-> articleData.title, summary |-> articleData.summary,
      author |-> articleData.author, publishDate |-> articleData.publishDate,
      url |-> articleData.url, site |-> articleData.site,
      publication |-> publication, search_query |-> query ]

\* { ...articleData, search_query }
SearchDataNoPublication(articleData, query) ==
    [ title |-> articleData.title, summary |-> articleData.summary,
      author |-> articleData.author, publishDate |-> articleData.publishDate,
      url |-> articleData.url, site |-> articleData.site,
      search_query |-> query ]

Strategy(name, query, searchData) ==
    [ name |-> name, query |-> query, searchData |-> searchData ]

\* Strategi 1: Titel + Publikation + Datum
Strategy1(a, pub, env) ==
    IF a.title # <<>> /\ pub # "" /\ a.publishDate # <<>>
    THEN LET q == Query(a.title, "", pub, normalizeDate(a.publishDate, env), <<>>, FALSE, "")
         IN  << Strategy(NameTitlePubDate, q, SearchData(a, pub, q)) >>
    ELSE <<>>

\* Strategi 2: Titel + Publikation
Strategy2(a, pub) ==
    IF a.title # <<>> /\ pub # ""
    THEN LET q == Query(a.title, "", pub, <<>>, <<>>, FALSE, "")
         IN  << Strategy(NameTitlePub, q, SearchData(a, pub, q)) >>
    ELSE <<>>

\* Faulty variant of strategy 3: emitted for a single keyword
Strategy3OneKeyword(a, pub) ==
    IF a.title # <<>> /\ pub # "" /\ Len(extractKeywords(a.title)) >= 1
    THEN LET q == Query(<<>>, "", pub, <<>>, Slice(extractKeywords(a.title), 3), FALSE, "")
         IN  << Strategy(NameKeywordsPub, q, SearchData(a, pub, q)) >>
    ELSE <<>>

\* Strategi 3: Nyckelord + Publikation
Strategy3(a, pub) ==
    IF a.title # <<>> /\ pub # "" /\ Len(extractKeywords(a.title)) >= 2
    THEN LET q == Query(<<>>, "", pub, <<>>, Slice(extractKeywords(a.title), 3), FALSE, "")
         IN  << Strategy(NameKeywordsPub, q, SearchData(a, pub, q)) >>
    ELSE <<>>

\* Faulty variant of strategy 4: emitted without an author
Strategy4AnyAuthor(a, pub, env) ==
    IF pub # "" /\ a.publishDate # <<>>
    THEN LET q == Query(<<>>, a.author, pub, normalizeDate(a.publishDate, env), <<>>, FALSE, "")
         IN  << Strategy(NameAuthorPubDate, q, SearchData(a, pub, q)) >>
    ELSE <<>>

\* Strategi 4: Författare + Publikation + Datum
Strategy4(a, pub, env) ==
    IF a.author # "" /\ pub # "" /\ a.publishDate # <<>>
    THEN LET q == Query(<<>>, a.author, pub, normalizeDate(a.publishDate, env), <<>>, FALSE, "")
         IN  << Strategy(NameAuthorPubDate, q, SearchData(a, pub, q)) >>
    ELSE <<>>

\* Strategi 5: Exakt titel
Strategy5(a) ==
    IF a.title # <<>>
    THEN LET q == Query(a.title, "", "", <<>>, <<>>, FALSE, "")
         IN  << Strategy(NameExactTitle, q, SearchDataNoPublication(a, q)) >>
    ELSE <<>>

\* Faulty variant of strategy 6: every keyword, not the first three
Strategy6AllKeywords(a, pub) ==
    IF a.title # <<>> /\ pub # "" /\ Len(extractKeywords(a.title)) > 0
    THEN LET q == Query(<<>>, "", pub, <<>>, extractKeywords(a.title), TRUE, "")
         IN  << Strategy(NameWildcardPub, q, SearchData(a, pub, q)) >>
    ELSE <<>>

\* Faulty variant of strategy 6: emitted only for three keywords
Strategy6NeedsThree(a, pub) ==
    IF a.title # <<>> /\ pub # "" /\ Len(extractKeywords(a.title)) >= 3
    THEN LET q == Query(<<>>, "", pub, <<>>, Slice(extractKeywords(a.title), 3), TRUE, "")
         IN  << Strategy(NameWildcardPub, q, SearchData(a, pub, q)) >>
    ELSE <<>>

\* Strategi 6: Wildcard + Publikation
Strategy6(a, pub) ==
    IF a.title # <<>> /\ pub # "" /\ Len(Slice(extractKeywords(a.title), 3)) > 0
    THEN LET q == Query(<<>>, "", pub, <<>>, Slice(extractKeywords(a.title), 3), TRUE, "")
         IN  << Strategy(NameWildcardPub, q, SearchData(a, pub, q)) >>
    ELSE <<>>

\* Faulty variant of strategy 7: the URL fallback only for a page with a title
Strategy7OnlyWithTitle(a) ==
    IF a.title # <<>>
    THEN << Strategy(NameUrl, Query(<<>>, "", "", <<>>, <<>>, FALSE, "url_search"),
                     [url |-> a.url]) >>
    ELSE <<>>

\* Strategi 7: URL-baserad
Strategy7(a) ==
    << Strategy(NameUrl, Query(<<>>, "", "", <<>>, <<>>, FALSE, "url_search"),
                [url |-> a.url]) >>

\* Faulty variant of the generator: the exact title after the wildcard search
generateSearchStrategiesSwapped(articleData, currentSite, env) ==
    LET pub == getPublicationName(currentSite)
    IN  Strategy1(articleData, pub, env)
        \o Strategy2(articleData, pub)
        \o Strategy3(articleData, pub)
        \o Strategy4(articleData, pub, env)
        \o Strategy6(articleData, pub)
        \o Strategy5(articleData)
        \o Strategy7(articleData)

\* generateSearchStrategies(articleData), for this.currentSite; env is the
\* platform (date parser, clock) normalizeDate runs on
generateSearchStrategies(articleData, currentSite, env) ==
    LET pub == getPublicationName(currentSite)
    IN  Strategy1(articleData, pub, env)
        \o Strategy2(articleData, pub)
        \o Strategy3(articleData, pub)
        \o Strategy4(articleData, pub, env)
        \o Strategy5(articleData)
        \o Strategy6(articleData, pub)
        \o Strategy7(articleData)

\* the names of a strategy list, in order
Names(strategies) == [i \in 1..Len(strategies) |-> strategies[i].name]

\* ------------------------------------------------------------------- state

VARIABLES
    currentSite,    \* this.currentSite
    env,            \* the platform: date parser and clock
    page,           \* the paywall signals now in the document
    initPc,         \* where init() stands: "session" (awaiting createSession) or "ready"
    sessionId,      \* this.sessionId
    obsTimers,      \* pending setTimeout(() => this.checkForPaywall(), 1000)
    recheckTimers,  \* pending deferred rechecks, by the signals their first pass saw
    button,         \* this.button: "none" (null), "shown", or "fading" (fade-out running)
    buttonTimer,    \* this.buttonTimer is set (the 15 s auto-hide timer is pending)
    fadeTimers,     \* pending 300 ms callbacks of hideUnlockButton
    isProcessing,   \* this.isProcessing
    res,            \* the activations of unlockArticle
    notification,   \* the notification element: "none", "loading", "success", "error"
    displayTimers,  \* the pending 1 s callbacks that open or display a found article
    paywallState,   \* what the last deferred recheck decided
    genInput,       \* an input of generateSearchStrategies
    genOutput,      \* whether generateSearchStrategies has run on it, and the list it returned
    fnInput,        \* the text (and platform) extractKeywords or normalizeDate is applied to
    fnOutput,       \* how often the function was applied, and what it returned
    cs,             \* the content-script variant: its instances, timers and page
    fadesDue,       \* whether the order of timer deadlines is tracked, and per
                    \* pending recheck the 300 ms callbacks that were pending
                    \* when its 3 s timer was set and have not fired yet
    domButtons      \* the unlock-button elements in document.body

vars == << currentSite, env, page, initPc, sessionId, obsTimers, recheckTimers,
           button, buttonTimer, fadeTimers, isProcessing, res, notification,
           displayTimers, paywallState, genInput, genOutput, fnInput, fnOutput, cs,
           fadesDue, domButtons >>

\* ------------------------------------------------------------------ inputs

\* the signals the documents considered carry: restrictive meta tags, a
\* paywall element, a paywall phrase in the body text (documents with a
\* JSON-LD isAccessibleForFree flag are not among them)
SignalKinds == {"meta", "elem", "text"}

\* the documents considered: no signal, or one kind of signal
Pages == {{}} \cup { {k} : k \in SignalKinds }

\* What checkForPaywall reads from a document on SVD: an lp:paywall or
\* lp:type tag with a restrictive content ('hard', 'premium') or with another
\* content ("metaopen"), a paywall element, a paywall phrase, schema markup,
\* an lp:paywall_user tag, '/a/' in the path.
DetectKinds == {"meta", "metaopen", "elem", "text", "schema", "userMeta", "premiumUrl"}

\* the documents the detection functions are applied to on their own: up to
\* two of these at once
DetectPages == { p \in SUBSET DetectKinds : Cardinality(p) <= 2 }

Word1 == <<"K","r","i","s","e","n">>
Word2 == <<"r","ä","n","t","a","n">>
Word3 == <<"s","k","o","l","a","n">>
Word4 == <<"u","n","d","e","r">>
Word5 == <<"2","0","2","4">>

TitleWords == {Word1, Word2, Word3, Word4, Word5}

RECURSIVE SeqsUpTo(_, _)
SeqsUpTo(S, n) ==
    IF n = 0 THEN {<<>>}
    ELSE LET shorter == SeqsUpTo(S, n - 1)
         IN  shorter \cup { <<x>> \o t : x \in S, t \in { u \in shorter : Len(u) = n - 1 } }

Word6 == <<"H","ö","j","s">>

\* two longer headlines, with four words that qualify as keywords
LongTitles == { <<Word1, Word2, Word3, Word6>>, <<Word6, Word4, Word3, Word2, Word1>> }

Titles == SeqsUpTo(TitleWords, MaxTitleWords) \cup LongTitles

Authors == {"", "Anna Svensson"}

DateTexts == {
    <<>>,
    <<"2","0","2","4","-","0","3","-","1","5">>,
    <<"1","5"," ","m","a","j"," ","2","0","2","4">>,
    <<"P","u","b","l","i","c","e","r","a","d"," ","i","g","å","r">> }

Envs == { [lenient |-> l, year |-> 2026, month |-> 11, day |-> 3] : l \in BOOLEAN }

PageUrl == "https://www.svd.se/a/abc"

ArticleData(title, author, publishDate, site) ==
    [ title |-> title, summary |-> "", author |-> author,
      publishDate |-> publishDate, url |-> PageUrl, site |-> site ]

\* What extractArticleData returns on the pages a resolution is started on:
\* a page where no selector finds anything, and a page with a title only.
ClickData(site) ==
    { ArticleData(<<>>, "", <<>>, site),
      ArticleData(<<Word4>>, "", <<>>, site) }

\* the article payloads a catalog reply can carry: one with a url, one without
Articles == {"a1", "a2"}
HasUrl(article) == article = "a1"

\* The outcomes of one check-article request: the fetch or the body parse
\* fails (ok = FALSE), or the parsed body reports pressreader_available or
\* not, with pressreader_match absent ("none"), present without an article
\* ("noarticle") or carrying an article.
Replies ==
    { [ok |-> FALSE, available |-> FALSE, match |-> "none"],
      [ok |-> TRUE,  available |-> FALSE, match |-> "none"],
      [ok |-> TRUE,  available |-> TRUE,  match |-> "none"],
      [ok |-> TRUE,  available |-> TRUE,  match |-> "noarticle"] }
    \cup { [ok |-> TRUE, available |-> TRUE, match |-> a] : a \in Articles }

NoReply == [ok |-> FALSE, available |-> FALSE, match |-> "null"]

\* ------------------------------------------------------- paywall detection

\* Faulty variant of the first pass: the article URL pattern counts on SVD
PaywallDetectedWithUrl(site, p) ==
    CASE site = "svd" ->
            p \cap {"meta", "metaopen", "elem", "text", "schema", "premiumUrl"} # {}
      [] site = "kungalvsposten" -> p \cap {"text", "elem"} # {}
      [] OTHER -> FALSE

\* checkForPaywall, first pass: whether paywallDetected becomes true.
\* SVD: paywallMeta || premiumMeta || hasPaywallElements || hasPaywallText ||
\* schemaPaywall, where paywallMeta and premiumMeta are the elements
\* querySelector finds, whatever their content attribute says.
\* Kungälvsposten: hasPaywallText || hasPaywallElements.
PaywallDetected(site, p) ==
    CASE site = "svd" -> p \cap {"meta", "metaopen", "elem", "text", "schema"} # {}
      [] site = "kungalvsposten" -> p \cap {"text", "elem"} # {}
      [] OTHER -> FALSE

\* The deferred recheck, run on document p by a timer whose first pass saw
\* the signals `first`.  SVD (the inline callback of checkForPaywall): the
\* two meta tags and the texts are read again, hasPaywallElements is the
\* first pass's value, which the closure captured.  Kungälvsposten
\* (recheckAndShowButton): only the page text is read again.
RecheckPaywall(site, p, first) ==
    CASE site = "svd" -> (p \cap {"meta", "metaopen", "text"} # {}) \/ ("elem" \in first)
      [] site = "kungalvsposten" -> "text" \in p
      [] OTHER -> FALSE

\* the MutationObserver callback: one timer per childList record with added
\* nodes, once observePageChanges has run
AddObserverTimers(n) ==
    IF initPc = "ready" THEN Min(obsTimers + n, MaxObsTimers) ELSE obsTimers

RECURSIVE SumOver(_, _)
SumOver(f, S) ==
    IF S = {} THEN 0
    ELSE LET x == CHOOSE y \in S : TRUE IN f[x] + SumOver(f, S \ {x})

TotalRechecks == SumOver(recheckTimers, DOMAIN recheckTimers)

\* Timers fire in the order of their deadlines: a 300 ms callback of
\* hideUnlockButton that is pending when a 3 s recheck timer is set fires
\* before that recheck.  Where the order is tracked, fadesDue.count[first]
\* holds, for each pending recheck of a first pass on `first`, oldest first,
\* the number of these callbacks that have not fired yet; where it is not,
\* timers fire in any order and nothing is counted.
NoFadesDue == [tracked |-> FALSE, count |-> [p \in Pages |-> <<>>]]

\* a recheck of a first pass on `first` has been set
FadesDueAfterSetting(first) ==
    IF fadesDue.tracked
    THEN [fadesDue EXCEPT !.count[first] = Append(@, fadeTimers)]
    ELSE fadesDue

\* the oldest 300 ms callback has fired
FadesDueAfterFade ==
    [fadesDue EXCEPT !.count =
        [p \in Pages |-> [i \in 1..Len(@[p]) |-> IF @[p][i] > 0 THEN @[p][i] - 1 ELSE 0]]]

\* the oldest recheck of a first pass on `first`, due once its count is 0, has fired
FadesDueAfterRecheck(first) ==
    IF fadesDue.tracked
    THEN [fadesDue EXCEPT !.count[first] = Tail(@)]
    ELSE fadesDue

\* Faulty variant of the first pass: the button is shown at once, without a
\* deferred recheck
CheckForPaywallShowsButton ==
    IF PaywallDetected(currentSite, page)
    THEN /\ button' = (IF button = "none" THEN "shown" ELSE button)
         /\ buttonTimer' = (button = "none" \/ buttonTimer)
         /\ UNCHANGED << recheckTimers, fadesDue >>
    ELSE UNCHANGED << recheckTimers, fadesDue, button, buttonTimer >>

\* Faulty variant of the first pass: the recheck is scheduled whether or not
\* a signal was found
CheckForPaywallAlwaysSchedules ==
    /\ TotalRechecks < MaxRecheckTimers
    /\ recheckTimers' = [recheckTimers EXCEPT ![page] = @ + 1]
    /\ fadesDue' = FadesDueAfterSetting(page)
    /\ UNCHANGED << button, buttonTimer >>

\* Faulty variant of the first pass: a document without any signal on a known
\* site is rechecked all the same
CheckForPaywallGuessing ==
    /\ IF PaywallDetected(currentSite, page) \/ (currentSite # "unknown" /\ page = {})
       THEN /\ TotalRechecks < MaxRecheckTimers
            /\ recheckTimers' = [recheckTimers EXCEPT ![page] = @ + 1]
            /\ fadesDue' = FadesDueAfterSetting(page)
       ELSE UNCHANGED << recheckTimers, fadesDue >>
    /\ UNCHANGED << button, buttonTimer >>

\* checkForPaywall(): schedules the deferred recheck when a signal is found;
\* it never shows the button itself
CheckForPaywall ==
    /\ IF PaywallDetected(currentSite, page)
       THEN /\ TotalRechecks < MaxRecheckTimers
            /\ recheckTimers' = [recheckTimers EXCEPT ![page] = @ + 1]
            /\ fadesDue' = FadesDueAfterSetting(page)
       ELSE UNCHANGED << recheckTimers, fadesDue >>
    /\ UNCHANGED << button, buttonTimer >>

\* ---------------------------------------------------------------- the button

\* hideUnlockButton()
HideUnlockButton ==
    /\ buttonTimer' = FALSE
    /\ IF button # "none"
       THEN /\ fadeTimers < MaxFadeTimers
            /\ button' = "fading"
            /\ fadeTimers' = fadeTimers + 1
       ELSE UNCHANGED << button, fadeTimers >>

\* showUnlockButton() creates a button unless this.button is set
CreatesButton == button = "none"

\* Faulty variant of showUnlockButton: the auto-hide timer is not started
ShowUnlockButtonNoTimer ==
    IF CreatesButton
    THEN /\ button' = "shown"
         /\ domButtons' = domButtons + 1
         /\ buttonTimer' = buttonTimer
         /\ obsTimers' = AddObserverTimers(1)
    ELSE UNCHANGED << button, domButtons, buttonTimer, obsTimers >>

\* Faulty variant of showUnlockButton: no test of this.button
ShowUnlockButtonUnguarded ==
    /\ button' = "shown"
    /\ domButtons' = domButtons + 1
    /\ buttonTimer' = TRUE
    /\ obsTimers' = AddObserverTimers(1)

\* showUnlockButton(): unless a button is set, the button is created and
\* appended to the body (seen by the MutationObserver) and its 15 s timer
\* is started
ShowUnlockButton ==
    IF CreatesButton
    THEN /\ button' = "shown"
         /\ domButtons' = domButtons + 1
         /\ buttonTimer' = TRUE
         /\ obsTimers' = AddObserverTimers(1)
    ELSE UNCHANGED << button, domButtons, buttonTimer, obsTimers >>

\* ------------------------------------------------------------ unlockArticle

IdleSlot ==
    [ pc |-> "idle", strategies |-> <<>>, idx |-> 0, foundArticle |-> NoReply,
      callLog |-> <<>>, sessionLog |-> <<>>, lastReply |-> "none",
      firstAccepted |-> NoReply, acceptedAt |-> 0,
      outcome |-> [kind |-> "none", article |-> "none"] ]

\* Faulty variant of the guard: a click is never turned away
BusyNever(flag) == FALSE

\* Faulty variant of the guard: a click on a button that is shown again is
\* let through while a resolution is running
BusyUnlessShownAgain(flag) == flag /\ button # "shown"

\* the early return of unlockArticle
Busy(flag) == flag

\* result.success && result.data.pressreader_available
Accepted(reply) == reply.ok /\ reply.available

\* Faulty variant of the request body: the session id is left out
RequestSessionNone(id) == "null"

\* session_id: this.sessionId, in the body of a check-article request
RequestSession(id) == id

\* Faulty variant of the loop: past the last strategy it starts over
NextIterationRestarts(slot) ==
    IF slot.idx < Len(slot.strategies)
    THEN [slot EXCEPT !.pc = "calling", !.idx = @ + 1,
                      !.callLog = Append(@, slot.strategies[slot.idx + 1].name),
                      !.sessionLog = Append(@, RequestSession(sessionId))]
    ELSE [slot EXCEPT !.pc = "calling", !.idx = 1,
                      !.callLog = Append(@, slot.strategies[1].name),
                      !.sessionLog = Append(@, RequestSession(sessionId))]

\* the loop body up to the await of searchWithStrategy: the next strategy's
\* request is issued; past the last strategy the loop is left
NextIteration(slot) ==
    IF slot.idx < Len(slot.strategies)
    THEN [slot EXCEPT !.pc = "calling", !.idx = @ + 1,
                      !.callLog = Append(@, slot.strategies[slot.idx + 1].name),
                      !.sessionLog = Append(@, RequestSession(sessionId))]
    ELSE [slot EXCEPT !.pc = "exit"]

\* Faulty variant of the loop body: no break after an accepted response
OnReplyNoBreak(slot, reply) ==
    IF Accepted(reply)
    THEN [slot EXCEPT !.foundArticle = reply, !.pc = "delay"]
    ELSE [slot EXCEPT !.pc = "delay"]

\* Faulty variant of the loop body: no delay after a rejected response
OnReplyNoDelay(slot, reply) ==
    IF Accepted(reply)
    THEN [slot EXCEPT !.foundArticle = reply, !.pc = "exit"]
    ELSE NextIteration(slot)

\* Faulty variant of the loop body: a failed request ends the search
OnReplyFailureEnds(slot, reply) ==
    IF Accepted(reply)
    THEN [slot EXCEPT !.foundArticle = reply, !.pc = "exit"]
    ELSE IF ~reply.ok THEN [slot EXCEPT !.pc = "exit"]
    ELSE [slot EXCEPT !.pc = "delay"]

\* the loop body after the await of searchWithStrategy
OnReply(slot, reply) ==
    IF Accepted(reply)
    THEN [slot EXCEPT !.foundArticle = reply, !.pc = "exit"]
    ELSE [slot EXCEPT !.pc = "delay"]

\* The code after the loop: the outcome, with the article it resolves.
\* Reading foundArticle.pressreader_match.article raises when
\* pressreader_match is absent, which ends in the catch block; so does
\* reading article.url of an undefined article, which only Kungälvsposten
\* does (on SVD the success branch is taken with the undefined article).
Outcome(slot) ==
    LET found == slot.foundArticle
    IN  IF found = NoReply THEN [kind |-> "nomatch", article |-> "none"]
        ELSE IF found.match = "none" THEN [kind |-> "error", article |-> "none"]
        ELSE IF found.match = "noarticle" /\ currentSite = "kungalvsposten"
        THEN [kind |-> "error", article |-> "none"]
        ELSE [kind |-> "resolved", article |-> found.match]

\* the 1 s timer the success branch sets; the callback that calls
\* window.open touches neither the document nor the script's fields, so
\* only the displayArticle callback is kept pending
DisplayTimer(outcome, site) ==
    IF outcome.kind # "resolved" THEN {}
    ELSE IF site = "kungalvsposten" /\ HasUrl(outcome.article)
    THEN {}
    ELSE { "display" }

\* Faulty variant of the guard's release: not released after an exception
GuardAfterOnlyOnSuccess(outcome, flag) ==
    IF outcome.kind = "error" THEN flag ELSE FALSE

\* this.isProcessing once the try statement is left, whatever the outcome
GuardAfter(outcome, flag) == FALSE

\* The activation r ran, without interruption, to slot's position: the
\* effects of what it passed on the way, after `shown` earlier calls of
\* showNotification in the same run; flag is this.isProcessing on the way.
Continue(r, slot, shown, flag) ==
    IF slot.pc = "exit"
    THEN LET outcome == Outcome(slot)
         IN  /\ res' = [res EXCEPT ![r] = [slot EXCEPT !.pc = "done", !.outcome = outcome]]
             /\ notification' = IF outcome.kind = "resolved" THEN "success" ELSE "error"
             /\ obsTimers' = AddObserverTimers(shown + 1)
             /\ displayTimers' = displayTimers \cup DisplayTimer(outcome, currentSite)
             /\ isProcessing' = GuardAfter(outcome, flag)
    ELSE /\ res' = [res EXCEPT ![r] = slot]
         /\ IF slot.pc = "calling"
            THEN /\ notification' = "loading"
                 /\ obsTimers' = AddObserverTimers(shown + 1)
            ELSE /\ notification' = (IF shown > 0 THEN "loading" ELSE notification)
                 /\ obsTimers' = AddObserverTimers(shown)
         /\ isProcessing' = flag
         /\ UNCHANGED displayTimers

\* ------------------------------------------------------------------ actions

NoneReturning == \A r \in DOMAIN res : res[r].pc # "done"

\* The reply to createSession's request arrives (or the request fails);
\* init() goes on with checkForPaywall() and observePageChanges().
SessionReply(reply) ==
    /\ initPc = "session"
    /\ initPc' = "ready"
    /\ sessionId' = IF reply = "success" THEN "session-1" ELSE "null"
    /\ CheckForPaywall
    /\ UNCHANGED << currentSite, env, page, obsTimers, fadeTimers, isProcessing, res,
                    notification, displayTimers, paywallState, genInput, cs, domButtons, genOutput, fnInput, fnOutput >>

\* The site's own scripts change the document: the signals present become p,
\* with or without a childList record that adds nodes under body.
PageMutate(p, added) ==
    /\ NoneReturning
    /\ p # page \/ added
    /\ page' = p
    /\ obsTimers' = AddObserverTimers(IF added THEN 1 ELSE 0)
    /\ UNCHANGED << currentSite, env, initPc, sessionId, recheckTimers, button,
                    buttonTimer, fadeTimers, isProcessing, res, notification,
                    displayTimers, paywallState, genInput, cs, domButtons, fadesDue, genOutput, fnInput, fnOutput >>

\* A timer set by the MutationObserver callback fires: checkForPaywall().
ObserverTimerFires ==
    /\ NoneReturning
    /\ obsTimers > 0
    /\ obsTimers' = obsTimers - 1
    /\ CheckForPaywall
    /\ UNCHANGED << currentSite, env, page, initPc, sessionId, fadeTimers, isProcessing,
                    res, notification, displayTimers, paywallState, genInput, cs, domButtons, genOutput, fnInput, fnOutput >>

\* Faulty variant of the deferred recheck: a recheck that does not find the
\* paywall schedules another recheck of the document it read
RecheckFiresAndPolls(first) ==
    /\ NoneReturning
    /\ recheckTimers[first] > 0
    /\ fadesDue.tracked => Head(fadesDue.count[first]) = 0
    /\ fadesDue' = FadesDueAfterRecheck(first)
    /\ IF RecheckPaywall(currentSite, page, first)
       THEN /\ recheckTimers' = [recheckTimers EXCEPT ![first] = @ - 1]
            /\ paywallState' = "Confirmed"
            /\ ShowUnlockButton
       ELSE /\ recheckTimers' = [[recheckTimers EXCEPT ![first] = @ - 1]
                                     EXCEPT ![page] = @ + 1]
            /\ paywallState' = "Absent"
            /\ UNCHANGED << button, domButtons, buttonTimer, obsTimers >>
    /\ UNCHANGED << currentSite, env, page, initPc, sessionId, fadeTimers, isProcessing,
                    res, notification, displayTimers, genInput, cs, genOutput, fnInput, fnOutput >>

\* A deferred recheck fires; it calls showUnlockButton() when it finds the
\* paywall again.
RecheckFires(first) ==
    /\ NoneReturning
    /\ recheckTimers[first] > 0
    /\ fadesDue.tracked => Head(fadesDue.count[first]) = 0
    /\ fadesDue' = FadesDueAfterRecheck(first)
    /\ recheckTimers' = [recheckTimers EXCEPT ![first] = @ - 1]
    /\ IF RecheckPaywall(currentSite, page, first)
       THEN /\ paywallState' = "Confirmed"
            /\ ShowUnlockButton
       ELSE /\ paywallState' = "Absent"
            /\ UNCHANGED << button, domButtons, buttonTimer, obsTimers >>
    /\ UNCHANGED << currentSite, env, page, initPc, sessionId, fadeTimers, isProcessing,
                    res, notification, displayTimers, genInput, cs, genOutput, fnInput, fnOutput >>

\* The user clicks the button (it stays in the document, and clickable, while
\* it fades out): unlockArticle() runs to its first await.  articleData is what
\* extractArticleData reads from the page.
Click(articleData) ==
    /\ NoneReturning
    /\ button # "none"
    /\ IF Busy(isProcessing)
       THEN UNCHANGED vars
       ELSE \E r \in DOMAIN res :
              /\ res[r].pc = "idle"
              /\ \A q \in DOMAIN res : res[q].pc = "idle" => r <= q
              /\ HideUnlockButton
              /\ LET fresh == [IdleSlot EXCEPT !.strategies =
                                 generateSearchStrategies(articleData, currentSite, env)]
                 IN  Continue(r, NextIteration(fresh), 1, TRUE)
              /\ UNCHANGED << currentSite, env, page, initPc, sessionId, recheckTimers, paywallState, genInput, cs, domButtons, fadesDue, genOutput, fnInput, fnOutput >>

\* The 15 s timer of the button fires: hideUnlockButton().
HideTimerFires ==
    /\ NoneReturning
    /\ buttonTimer
    /\ HideUnlockButton
    /\ UNCHANGED << currentSite, env, page, initPc, sessionId, obsTimers, recheckTimers,
                    isProcessing, res, notification, displayTimers,
                    paywallState, genInput, cs, domButtons, fadesDue, genOutput, fnInput, fnOutput >>

\* Faulty variant of the fade-out callback: this.button is not reset
FadeTimerFiresKeepsField ==
    /\ NoneReturning
    /\ fadeTimers > 0
    /\ fadeTimers' = fadeTimers - 1
    /\ button' = button
    /\ fadesDue' = FadesDueAfterFade
    /\ domButtons' = (IF button # "none" THEN domButtons - 1 ELSE domButtons)
    /\ UNCHANGED << currentSite, env, page, initPc, sessionId, obsTimers, recheckTimers,
                    buttonTimer, isProcessing, res, notification, displayTimers, paywallState, genInput, cs, genOutput, fnInput, fnOutput >>

\* A 300 ms callback of hideUnlockButton fires: the button now set, if any,
\* is removed.
FadeTimerFires ==
    /\ NoneReturning
    /\ fadeTimers > 0
    /\ fadeTimers' = fadeTimers - 1
    /\ button' = "none"
    /\ fadesDue' = FadesDueAfterFade
    /\ domButtons' = (IF button # "none" THEN domButtons - 1 ELSE domButtons)
    /\ UNCHANGED << currentSite, env, page, initPc, sessionId, obsTimers, recheckTimers,
                    buttonTimer, isProcessing, res, notification, displayTimers, paywallState, genInput, cs, genOutput, fnInput, fnOutput >>

\* The check-article request of activation r completes with reply;
\* searchWithStrategy returns and the loop body goes on.
CatalogReply(r, reply) ==
    /\ NoneReturning
    /\ res[r].pc = "calling"
    /\ LET kind == IF ~reply.ok THEN "failed"
                   ELSE IF ~reply.available THEN "rejected" ELSE "available"
           seen == IF Accepted(reply) /\ res[r].acceptedAt = 0
                   THEN [res[r] EXCEPT !.firstAccepted = reply, !.lastReply = kind,
                                       !.acceptedAt = Len(res[r].callLog)]
                   ELSE [res[r] EXCEPT !.lastReply = kind]
       IN  Continue(r, OnReply(seen, reply), 0, isProcessing)
    /\ UNCHANGED << currentSite, env, page, initPc, sessionId, recheckTimers, button,
                    buttonTimer, fadeTimers, paywallState,
                    genInput, cs, domButtons, fadesDue, genOutput, fnInput, fnOutput >>

\* The 500 ms pause of activation r has elapsed: the loop goes on.
DelayFires(r) ==
    /\ NoneReturning
    /\ res[r].pc = "delay"
    /\ Continue(r, NextIteration([res[r] EXCEPT !.lastReply = "none"]), 0, isProcessing)
    /\ UNCHANGED << currentSite, env, page, initPc, sessionId, recheckTimers, button,
                    buttonTimer, fadeTimers, paywallState,
                    genInput, cs, domButtons, fadesDue, genOutput, fnInput, fnOutput >>

\* unlockArticle has run past its finally block and returns, in the job
\* that ran it there: nothing else runs before.
Return(r) ==
    /\ res[r].pc = "done"
    /\ res' = [res EXCEPT ![r] = IdleSlot]
    /\ UNCHANGED << currentSite, env, page, initPc, sessionId, obsTimers, recheckTimers,
                    button, buttonTimer, fadeTimers, isProcessing, notification,
                    displayTimers, paywallState, genInput, cs, domButtons, fadesDue, genOutput, fnInput, fnOutput >>

\* The 3 s timer of a success or error notification fires.
NotificationTimerFires ==
    /\ NoneReturning
    /\ notification \in {"success", "error"}
    /\ notification' = "none"
    /\ UNCHANGED << currentSite, env, page, initPc, sessionId, obsTimers, recheckTimers,
                    button, buttonTimer, fadeTimers, isProcessing, res, displayTimers, paywallState, genInput, cs, domButtons, fadesDue, genOutput, fnInput, fnOutput >>

\* A 1 s timer of the success branch fires: displayArticle removes the
\* notification and appends the article container.
DisplayTimerFires(t) ==
    /\ NoneReturning
    /\ t \in displayTimers
    /\ displayTimers' = displayTimers \ {t}
    /\ notification' = "none"
    /\ obsTimers' = AddObserverTimers(1)
    /\ UNCHANGED << currentSite, env, page, initPc, sessionId, recheckTimers, button,
                    buttonTimer, fadeTimers, isProcessing, res,
                    paywallState, genInput, cs, domButtons, fadesDue, genOutput, fnInput, fnOutput >>

\* ------------------------------------------- the content-script variant
\* (PressReaderArticleUnlocker): one instance is created when the document
\* has loaded and one more 1 s after every popstate event.  All instances
\* share the document; each has its own fields and its own MutationObserver.

\* an instance not yet created
NoInstance ==
    [ pc |-> "none", button |-> FALSE, obsTimers |-> 0, isProcessing |-> FALSE,
      call |-> FALSE, hideTimer |-> FALSE ]

\* new PressReaderArticleUnlocker(): the constructor calls init(), which
\* awaits createSession()
NewInstance == [NoInstance EXCEPT !.pc = "session"]

\* the content script is not loaded
NoCs == [ inst |-> [i \in 1..MaxInstances |-> NoInstance], popTimers |-> 0,
          locked |-> FALSE ]

\* n childList records with added nodes reach the MutationObserver of every
\* instance that has called observePageChanges(); instance `self` is left to
\* the caller
CsObserved(inst, self, n) ==
    [i \in DOMAIN inst |->
        IF i # self /\ inst[i].pc = "ready"
        THEN [inst[i] EXCEPT !.obsTimers = Min(@ + n, MaxObsTimers)]
        ELSE inst[i]]

\* showUnlockButton() of instance i: unless its own this.button is set, a
\* button is created and appended to the body
CsShowUnlockButton(inst, i) ==
    IF inst[i].button THEN inst
    ELSE CsObserved([inst EXCEPT ![i].button = TRUE,
                                 ![i].obsTimers = IF inst[i].pc = "ready"
                                                  THEN Min(@ + 1, MaxObsTimers) ELSE @],
                    i, 1)

\* checkForLockedContent() of instance i
CsCheckForLockedContent(inst, i) ==
    IF cs.locked THEN CsShowUnlockButton(inst, i) ELSE inst

\* ----------------------------------------------------------- specification

NoGenInput == [articleData |-> ArticleData(<<>>, "", <<>>, "unknown"),
               site |-> "unknown", env |-> [lenient |-> FALSE, year |-> 2026, month |-> 11, day |-> 3]]

NoGenOutput == [done |-> FALSE, strategies |-> <<>>]

NoFnInput == [text |-> <<>>, env |-> [lenient |-> FALSE, year |-> 2026, month |-> 11, day |-> 3]]

NoFnOutput == [applied |-> 0, value |-> <<>>, again |-> <<>>]

\* The script is only started on the two supported hosts; the constructor has
\* run and init() awaits createSession().
Start(due) ==
    /\ currentSite \in {"svd", "kungalvsposten"}
    /\ env = [lenient |-> TRUE, year |-> 2026, month |-> 11, day |-> 3]
    /\ page \in Pages
    /\ initPc = "session"
    /\ sessionId = "null"
    /\ obsTimers = 0
    /\ recheckTimers = [p \in Pages |-> 0]
    /\ fadesDue = due
    /\ domButtons = 0
    /\ button = "none"
    /\ buttonTimer = FALSE
    /\ fadeTimers = 0
    /\ isProcessing = FALSE
    /\ res = [r \in 1..MaxResolutions |-> IdleSlot]
    /\ notification = "none"
    /\ displayTimers = {}
    /\ paywallState = "Undecided"
    /\ genInput = NoGenInput
    /\ cs = NoCs
    /\ genOutput = NoGenOutput
    /\ fnInput = NoFnInput
    /\ fnOutput = NoFnOutput

\* timers fire in any order
Init == Start(NoFadesDue)

\* timers fire in the order of their deadlines
InitTimed == Start([NoFadesDue EXCEPT !.tracked = TRUE])

Next ==
    \/ \E reply \in {"success", "unsuccessful", "error"} : SessionReply(reply)
    \/ \E p \in Pages, added \in BOOLEAN : PageMutate(p, added)
    \/ ObserverTimerFires
    \/ \E first \in Pages : RecheckFires(first)
    \/ \E articleData \in ClickData(currentSite) : Click(articleData)
    \/ HideTimerFires
    \/ FadeTimerFires
    \/ \E r \in DOMAIN res, reply \in Replies : CatalogReply(r, reply)
    \/ \E r \in DOMAIN res : DelayFires(r)
    \/ \E r \in DOMAIN res : Return(r)
    \/ NotificationTimerFires
    \/ \E t \in displayTimers : DisplayTimerFires(t)

Spec == Init /\ [][Next]_vars

\* The timers the script sets fire, and a continuation that is ready runs.
\* Nothing is assumed of the network (the replies to the session request and
\* to the check-article requests may never arrive) nor of the page's scripts
\* and the user.
Fairness ==
    /\ WF_vars(ObserverTimerFires)
    /\ WF_vars(\E first \in Pages : RecheckFires(first))
    /\ WF_vars(HideTimerFires)
    /\ WF_vars(FadeTimerFires)
    /\ WF_vars(\E r \in DOMAIN res : DelayFires(r))
    /\ WF_vars(\E r \in DOMAIN res : Return(r))
    /\ WF_vars(NotificationTimerFires)
    /\ WF_vars(\E t \in {"display"} : DisplayTimerFires(t))

SpecLive == Spec /\ Fairness

\* In addition, every check-article request is answered or fails.
FairnessNet ==
    /\ Fairness
    /\ WF_vars(\E r \in DOMAIN res, reply \in Replies : CatalogReply(r, reply))

SpecNet == Spec /\ FairnessNet

\* The script with its timers firing in the order of their deadlines, and
\* every timer firing.
SpecTimed == InitTimed /\ [][Next]_vars /\ Fairness

\* ---------------------------------- the strategy generator as a function

GenInputs ==
    { [articleData |-> ArticleData(t, a, d, site), site |-> site, env |-> e] :
        t \in Titles, a \in Authors, d \in DateTexts, site \in Sites, e \in Envs }

InitGen ==
    /\ currentSite = "svd"
    /\ env = [lenient |-> TRUE, year |-> 2026, month |-> 11, day |-> 3]
    /\ page = {}
    /\ initPc = "session"
    /\ sessionId = "null"
    /\ obsTimers = 0
    /\ recheckTimers = [p \in Pages |-> 0]
    /\ fadesDue = NoFadesDue
    /\ domButtons = 0
    /\ button = "none"
    /\ buttonTimer = FALSE
    /\ fadeTimers = 0
    /\ isProcessing = FALSE
    /\ res = [r \in 1..MaxResolutions |-> IdleSlot]
    /\ notification = "none"
    /\ displayTimers = {}
    /\ paywallState = "Undecided"
    /\ genInput \in GenInputs
    /\ cs = NoCs
    /\ genOutput = NoGenOutput
    /\ fnInput = NoFnInput
    /\ fnOutput = NoFnOutput

\* generateSearchStrategies is applied to the input
Generate ==
    /\ ~genOutput.done
    /\ genOutput' = [done |-> TRUE,
                     strategies |-> generateSearchStrategies(genInput.articleData,
                                                             genInput.site, genInput.env)]
    /\ UNCHANGED << currentSite, env, page, initPc, sessionId, obsTimers, recheckTimers,
                    button, buttonTimer, fadeTimers, isProcessing, res, notification,
                    displayTimers, paywallState, genInput, cs, domButtons, fadesDue, fnInput, fnOutput >>

NextGen == Generate

SpecGen == InitGen /\ [][NextGen]_vars

\* ------------------------------------------------- extractKeywords alone

\* the script at rest, for the specifications of the pure functions
MachineAtRest ==
    /\ currentSite = "svd"
    /\ env = [lenient |-> TRUE, year |-> 2026, month |-> 11, day |-> 3]
    /\ page = {}
    /\ initPc = "session"
    /\ sessionId = "null"
    /\ obsTimers = 0
    /\ recheckTimers = [p \in Pages |-> 0]
    /\ fadesDue = NoFadesDue
    /\ domButtons = 0
    /\ button = "none"
    /\ buttonTimer = FALSE
    /\ fadeTimers = 0
    /\ isProcessing = FALSE
    /\ res = [r \in 1..MaxResolutions |-> IdleSlot]
    /\ notification = "none"
    /\ displayTimers = {}
    /\ paywallState = "Undecided"
    /\ genInput = NoGenInput
    /\ genOutput = NoGenOutput

\* words of a text: a capitalised word, a stop word of five letters, a
\* number, a word of three letters and a word of four with a Swedish letter
KwWords == { Word1, Word4, Word5, <<"n","y","a">>, <<"h","ö","j","a">> }

KwInputs ==
    { [text |-> t, env |-> NoFnInput.env] : t \in SeqsUpTo(KwWords, MaxTextWords) }

InitKw ==
    /\ MachineAtRest
    /\ cs = NoCs
    /\ fnInput \in KwInputs
    /\ fnOutput = NoFnOutput

\* extractKeywords is applied to the text
ExtractKeywords ==
    /\ fnOutput.applied = 0
    /\ fnOutput' = [applied |-> 1, value |-> extractKeywords(fnInput.text), again |-> <<>>]
    /\ UNCHANGED << currentSite, env, page, initPc, sessionId, obsTimers, recheckTimers,
                    button, buttonTimer, fadeTimers, isProcessing, res, notification,
                    displayTimers, paywallState, genInput, cs, domButtons, fadesDue, genOutput, fnInput >>

NextKw == ExtractKeywords

SpecKw == InitKw /\ [][NextKw]_vars

\* --------------------------------------------------- normalizeDate alone

Pad4(s) == IF Len(s) < 4 THEN SubSeq(<<"0","0","0","0">>, 1, 4 - Len(s)) \o s ELSE s

DateYears == {1999, 2024}
DateMonths == {3, 5, 10}
DateDays == {1, 15}

\* YYYY-MM-DD, as in article:published_time and datetime attributes
IsoDates ==
    { Pad4(NumToString(y)) \o <<"-">> \o padStart2(NumToString(m)) \o <<"-">>
        \o padStart2(NumToString(d)) : y \in DateYears, m \in DateMonths, d \in DateDays }

\* "15 maj 2024", as in the text of a date element
SwedishDates ==
    { NumToString(d) \o <<" ">> \o swedishMonths[m][1] \o <<" ">> \o NumToString(y) :
        y \in DateYears, m \in DateMonths, d \in DateDays }

DateInputs ==
    IsoDates \cup SwedishDates \cup DateTexts
    \cup { <<"m","a","j"," ","2","0","2","4">>, <<"1","5"," ","o","k","t">> }

DateFnInputs == { [text |-> t, env |-> e] : t \in DateInputs, e \in Envs }

InitDate ==
    /\ MachineAtRest
    /\ cs = NoCs
    /\ fnInput \in DateFnInputs
    /\ fnOutput = NoFnOutput

\* normalizeDate is applied to the text
NormalizeDate ==
    /\ fnOutput.applied = 0
    /\ fnOutput' = [applied |-> 1, value |-> normalizeDate(fnInput.text, fnInput.env),
                    again |-> <<>>]
    /\ UNCHANGED << currentSite, env, page, initPc, sessionId, obsTimers, recheckTimers,
                    button, buttonTimer, fadeTimers, isProcessing, res, notification,
                    displayTimers, paywallState, genInput, cs, domButtons, fadesDue, genOutput, fnInput >>

\* normalizeDate is applied to what it returned
NormalizeDateAgain ==
    /\ fnOutput.applied = 1
    /\ fnOutput' = [fnOutput EXCEPT !.applied = 2,
                                    !.again = normalizeDate(fnOutput.value, fnInput.env)]
    /\ UNCHANGED << currentSite, env, page, initPc, sessionId, obsTimers, recheckTimers,
                    button, buttonTimer, fadeTimers, isProcessing, res, notification,
                    displayTimers, paywallState, genInput, cs, domButtons, fadesDue, genOutput, fnInput >>

NextDate == NormalizeDate \/ NormalizeDateAgain

SpecDate == InitDate /\ [][NextDate]_vars

\* ------------------------------------------------ paywall detection alone

InitDetect ==
    /\ currentSite \in Sites
    /\ env = [lenient |-> TRUE, year |-> 2026, month |-> 11, day |-> 3]
    /\ page \in DetectPages
    /\ initPc = "session"
    /\ sessionId = "null"
    /\ obsTimers = 0
    /\ recheckTimers = [p \in Pages |-> 0]
    /\ fadesDue = NoFadesDue
    /\ domButtons = 0
    /\ button = "none"
    /\ buttonTimer = FALSE
    /\ fadeTimers = 0
    /\ isProcessing = FALSE
    /\ res = [r \in 1..MaxResolutions |-> IdleSlot]
    /\ notification = "none"
    /\ displayTimers = {}
    /\ paywallState = "Undecided"
    /\ genInput = NoGenInput
    /\ cs = NoCs
    /\ genOutput = NoGenOutput
    /\ fnInput = NoFnInput
    /\ fnOutput = [applied |-> 0, value |-> FALSE, again |-> FALSE]

\* the first pass of checkForPaywall reads the document
DetectFirstPass ==
    /\ fnOutput.applied = 0
    /\ fnOutput' = [applied |-> 1, value |-> PaywallDetected(currentSite, page),
                    again |-> FALSE]
    /\ UNCHANGED << currentSite, env, page, initPc, sessionId, obsTimers, recheckTimers,
                    button, buttonTimer, fadeTimers, isProcessing, res, notification,
                    displayTimers, paywallState, genInput, cs, domButtons, fadesDue, genOutput, fnInput >>

\* the deferred recheck it scheduled reads the same document
DetectRecheck ==
    /\ fnOutput.applied = 1
    /\ fnOutput.value
    /\ fnOutput' = [fnOutput EXCEPT !.applied = 2,
                                    !.again = RecheckPaywall(currentSite, page, page)]
    /\ UNCHANGED << currentSite, env, page, initPc, sessionId, obsTimers, recheckTimers,
                    button, buttonTimer, fadeTimers, isProcessing, res, notification,
                    displayTimers, paywallState, genInput, cs, domButtons, fadesDue, genOutput, fnInput >>

NextDetect == DetectFirstPass \/ DetectRecheck

SpecDetect == InitDetect /\ [][NextDetect]_vars

\* --------------------------------------------- the content script alone

\* the fields of the userscript's class, its timers and the function inputs
userscriptVars ==
    << currentSite, env, page, initPc, sessionId, obsTimers, recheckTimers, button,
       buttonTimer, fadeTimers, isProcessing, res, notification, displayTimers,
       paywallState, genInput, genOutput, fnInput, fnOutput, fadesDue, domButtons >>

\* the document has loaded and the first instance has been created
InitCs ==
    /\ MachineAtRest
    /\ fnInput = NoFnInput
    /\ fnOutput = NoFnOutput
    /\ \E l \in BOOLEAN :
           cs = [NoCs EXCEPT !.inst[1] = NewInstance, !.locked = l]

\* The session request of instance i settles: init() goes on with
\* checkForLockedContent() and then observePageChanges().
CsSessionReply(i) ==
    /\ cs.inst[i].pc = "session"
    /\ cs' = [cs EXCEPT !.inst = [CsCheckForLockedContent(cs.inst, i) EXCEPT ![i].pc = "ready"]]
    /\ UNCHANGED userscriptVars

\* The site's scripts change the document: lock indicators are present or
\* not, with or without a childList record that adds nodes.
CsPageMutate(l, added) ==
    /\ l # cs.locked \/ added
    /\ cs' = [cs EXCEPT !.locked = l,
                        !.inst = CsObserved(cs.inst, 0, IF added THEN 1 ELSE 0)]
    /\ UNCHANGED userscriptVars

\* A timer set by the MutationObserver callback of instance i fires:
\* checkForLockedContent().
CsObserverTimerFires(i) ==
    /\ cs.inst[i].obsTimers > 0
    /\ cs' = [cs EXCEPT !.inst =
                 CsCheckForLockedContent([cs.inst EXCEPT ![i].obsTimers = @ - 1], i)]
    /\ UNCHANGED userscriptVars

\* A popstate event: the listener sets the 1 s timer that creates an instance.
CsPopstate ==
    /\ cs.popTimers + Cardinality({i \in DOMAIN cs.inst : cs.inst[i].pc # "none"})
           < MaxInstances
    /\ cs' = [cs EXCEPT !.popTimers = @ + 1]
    /\ UNCHANGED userscriptVars

\* That timer fires: new PressReaderArticleUnlocker().
CsPopTimerFires ==
    /\ cs.popTimers > 0
    /\ \E i \in DOMAIN cs.inst :
           /\ cs.inst[i].pc = "none"
           /\ \A j \in DOMAIN cs.inst : cs.inst[j].pc = "none" => i <= j
           /\ cs' = [cs EXCEPT !.popTimers = @ - 1, !.inst[i] = NewInstance]
    /\ UNCHANGED userscriptVars

\* The user clicks the button of instance i: unlockArticle() runs to the
\* await of its check-article request, after appending the progress overlay.
CsClick(i) ==
    /\ cs.inst[i].button
    /\ IF cs.inst[i].isProcessing
       THEN UNCHANGED cs
       ELSE cs' = [cs EXCEPT !.inst =
                     CsObserved([cs.inst EXCEPT ![i].isProcessing = TRUE,
                                                ![i].call = TRUE,
                                                ![i].obsTimers = Min(@ + 1, MaxObsTimers)],
                                i, 1)]
    /\ UNCHANGED userscriptVars

\* The check-article request of instance i completes.  With an available
\* article the article container is appended and the 1 s timer that hides
\* the overlay and the button is set; otherwise (not available, unsuccessful,
\* failed) only timers that remove the overlay are set.  isProcessing is
\* reset in every case.
CsCheckReply(i, available) ==
    /\ cs.inst[i].call
    /\ cs' = [cs EXCEPT !.inst =
                 IF available
                 THEN CsObserved([cs.inst EXCEPT ![i].call = FALSE,
                                                 ![i].isProcessing = FALSE,
                                                 ![i].hideTimer = TRUE,
                                                 ![i].obsTimers = Min(@ + 1, MaxObsTimers)],
                                 i, 1)
                 ELSE [cs.inst EXCEPT ![i].call = FALSE, ![i].isProcessing = FALSE]]
    /\ UNCHANGED userscriptVars

\* The 1 s timer after a displayed article fires: hideProgressOverlay() and
\* hideUnlockButton(), which removes this instance's button if it has one.
CsHideTimerFires(i) ==
    /\ cs.inst[i].hideTimer
    /\ cs' = [cs EXCEPT !.inst[i].hideTimer = FALSE, !.inst[i].button = FALSE]
    /\ UNCHANGED userscriptVars

NextCs ==
    \/ \E i \in 1..MaxInstances : CsSessionReply(i)
    \/ \E l \in BOOLEAN, added \in BOOLEAN : CsPageMutate(l, added)
    \/ \E i \in 1..MaxInstances : CsObserverTimerFires(i)
    \/ CsPopstate
    \/ CsPopTimerFires
    \/ \E i \in 1..MaxInstances : CsClick(i)
    \/ \E i \in 1..MaxInstances, available \in BOOLEAN : CsCheckReply(i, available)
    \/ \E i \in 1..MaxInstances : CsHideTimerFires(i)

SpecCs == InitCs /\ [][NextCs]_vars

\* ------------------------------------------------------------------ claims

\* C1: a resolution calls the catalog once per strategy, in list order, up to
\* and including the first strategy whose response is accepted; no call is
\* made for a later strategy, and the article resolved is the one carried by
\* that first accepted response.
C1_CallsInOrderUpToFirstAccepted ==
    \A r \in DOMAIN res :
        LET slot == res[r]
        IN  /\ Len(slot.callLog) <= Len(slot.strategies)
            /\ slot.callLog = SubSeq(Names(slot.strategies), 1, Len(slot.callLog))
            /\ slot.acceptedAt # 0 =>
                   /\ slot.pc = "done"
                   /\ Len(slot.callLog) = slot.acceptedAt
            /\ (slot.pc = "done" /\ slot.outcome.kind = "resolved") =>
                   /\ slot.acceptedAt # 0
                   /\ slot.outcome.article = slot.firstAccepted.match

\* a resolution over three strategies ended at the second one's response
C1_Witness ==
    \E r \in DOMAIN res :
        /\ res[r].pc = "done"
        /\ Len(res[r].strategies) = 3
        /\ res[r].acceptedAt = 2
        /\ res[r].outcome.kind = "resolved"

\* C2: when every strategy's response is rejected or fails, the resolution
\* ends in NoMatch after exactly one call per strategy, in list order; and a
\* call that follows another is issued only once the earlier call has
\* completed and the delay after it has elapsed.
C2_AllRejectedEndsInNoMatch ==
    /\ [](\A r \in DOMAIN res :
            (res[r].pc = "done" /\ res[r].acceptedAt = 0) =>
                /\ res[r].outcome.kind = "nomatch"
                /\ res[r].callLog = Names(res[r].strategies))
    /\ [][\A r \in DOMAIN res :
            (res[r].callLog # <<>> /\ Len(res'[r].callLog) > Len(res[r].callLog)) =>
                /\ res[r].pc = "delay"
                /\ Len(res'[r].callLog) = Len(res[r].callLog) + 1]_vars

\* a resolution over three strategies ended without a match
C2_Witness ==
    \E r \in DOMAIN res :
        /\ res[r].pc = "done"
        /\ res[r].outcome.kind = "nomatch"
        /\ Len(res[r].callLog) = 3

\* the strategies of a list that are the URL fallback
UrlFallbacks(strategies) ==
    { i \in 1..Len(strategies) :
        strategies[i].name = NameUrl /\ strategies[i].query.literal = "url_search" }

\* C3: for every metadata record and every site, the generated list contains
\* the URL fallback strategy exactly once, as its last element.
C3_UrlFallbackOnceAndLast ==
    genOutput.done =>
        /\ genOutput.strategies # <<>>
        /\ UrlFallbacks(genOutput.strategies) = { Len(genOutput.strategies) }

\* a full list of seven strategies was generated
C3_Witness ==
    /\ genOutput.done
    /\ Len(genOutput.strategies) = 7
    /\ genOutput.strategies[7].name = NameUrl

\* the fixed order of the strategies
StrategyOrder ==
    << NameTitlePubDate, NameTitlePub, NameKeywordsPub, NameAuthorPubDate,
       NameExactTitle, NameWildcardPub, NameUrl >>

Rank(name) == CHOOSE i \in 1..Len(StrategyOrder) : StrategyOrder[i] = name

\* C4: a non-empty title gives at least two strategies, among them the exact
\* title search and the URL fallback; the strategies emitted always stand in
\* the fixed relative order.
C4_TitleGivesExactTitleAndFixedOrder ==
    genOutput.done =>
        LET names == Names(genOutput.strategies)
        IN  /\ genInput.articleData.title # <<>> =>
                /\ Len(names) >= 2
                /\ NameExactTitle \in Range(names)
                /\ NameUrl \in Range(names)
            /\ Range(names) \subseteq Range(StrategyOrder)
            /\ \A i, j \in 1..Len(names) : i < j => Rank(names[i]) < Rank(names[j])

\* a titled page of an unknown site: the exact title, then the URL fallback
C4_Witness ==
    /\ genOutput.done
    /\ genInput.articleData.title # <<>>
    /\ Names(genOutput.strategies) = << NameExactTitle, NameUrl >>

\* this step is the firing of a deferred recheck whose first pass saw `first`
RecheckStep(first) == recheckTimers'[first] < recheckTimers[first]

\* this step creates the unlock button
ButtonCreated == button = "none" /\ button' # "none"

\* C5: when the first pass found restrictive structural markers and the page
\* holds no paywall marker at recheck time, the recheck shows no button,
\* generates no strategies and makes no catalog call.
C5_NoButtonWhenMarkersGone ==
    [][\A first \in Pages :
          ("elem" \in first /\ RecheckStep(first) /\ page = {}) =>
              (button' = button /\ res' = res)]_vars

\* C6: on each site and for each kind of signal (metadata, structural, text),
\* a signal the first pass saw and the recheck still finds on the page ends
\* in Confirmed with the button shown.
C6_ButtonWhenSignalPersists ==
    [][\A first \in Pages : \A k \in {"meta", "elem", "text"} :
          (k \in first /\ RecheckStep(first) /\ k \in page) =>
              (paywallState' = "Confirmed" /\ button' # "none")]_vars

\* C7: once a recheck has decided Confirmed or Absent, the decision stands:
\* no later event runs a detection pass, schedules a recheck or shows the
\* button again.
C7_DecisionIsTerminal ==
    [][(paywallState \in {"Confirmed", "Absent"}) =>
          ( /\ paywallState' = paywallState
            /\ obsTimers' >= obsTimers
            /\ TotalRechecks' <= TotalRechecks
            /\ ~ButtonCreated )]_vars

\* C8: a catalog call is made only in a resolution started by a click on the
\* button, and the button is only ever created by a recheck that found the
\* paywall; a recheck that contradicts its first pass leaves the button and
\* the resolutions as they are.
C8_CallOnlyAfterConfirmAndClick ==
    /\ [](paywallState = "Undecided" =>
            /\ button = "none"
            /\ \A r \in DOMAIN res : res[r].pc = "idle")
    /\ [][( /\ \A r \in DOMAIN res :
                 (res[r].pc = "idle" /\ res'[r].pc # "idle") => button # "none"
            /\ \A r \in DOMAIN res :
                 Len(res'[r].callLog) > Len(res[r].callLog) => res'[r].pc = "calling"
            /\ ButtonCreated =>
                 \E first \in Pages :
                     RecheckStep(first) /\ RecheckPaywall(currentSite, page, first)
            /\ \A first \in Pages :
                 (RecheckStep(first) /\ ~RecheckPaywall(currentSite, page, first)) =>
                     (button' = button /\ buttonTimer' = buttonTimer /\ res' = res) )]_vars

\* the first call of a resolution is outstanding, after a confirming recheck
C8_Witness ==
    /\ paywallState = "Confirmed"
    /\ \E r \in DOMAIN res : res[r].pc = "calling" /\ Len(res[r].callLog) = 1

\* C9: at most one resolution is running, and at most one check-article
\* request is outstanding.
C9_OneResolutionOneRequest ==
    /\ Cardinality({ r \in DOMAIN res : res[r].pc \in {"calling", "delay"} }) <= 1
    /\ Cardinality({ r \in DOMAIN res : res[r].pc = "calling" }) <= 1

\* a request is outstanding while a button is on the page again to be clicked
C9_Witness ==
    /\ button = "shown"
    /\ isProcessing
    /\ \E r \in DOMAIN res : res[r].pc = "calling"

\* C10: isProcessing is set while a resolution makes its calls, from before
\* the first one, and is false once the resolution has ended, whether by a
\* match, NoMatch, a failed request or an exception.
C10_GuardSetThenReleased ==
    /\ (\E r \in DOMAIN res : res[r].pc \in {"calling", "delay"}) => isProcessing
    /\ (\A r \in DOMAIN res : res[r].pc \in {"idle", "done"}) => ~isProcessing

\* a resolution that made calls ended in the catch block
C10_Witness ==
    \E r \in DOMAIN res :
        /\ res[r].pc = "done"
        /\ res[r].outcome.kind = "error"
        /\ res[r].callLog # <<>>
        /\ ~isProcessing

\* C11: a catalog call that fails at the network or protocol level is
\* handled like a rejected response: the resolution waits the delay and goes
\* on with the next strategy (or, after the last one, ends in NoMatch); the
\* failure itself does not end the resolution.
C11_TransportFailureLikeRejection ==
    /\ [](\A r \in DOMAIN res :
            res[r].pc = "delay" =>
                /\ res[r].lastReply \in {"failed", "rejected"}
                /\ res[r].foundArticle = NoReply)
    /\ [][\A r \in DOMAIN res :
            /\ (res[r].pc = "calling" /\ res'[r].lastReply = "failed") =>
                   /\ res'[r].pc = "delay"
                   /\ res'[r].callLog = res[r].callLog
            /\ (res[r].pc = "delay" /\ res'[r] # res[r]) =>
                   IF Len(res[r].callLog) < Len(res[r].strategies)
                   THEN /\ res'[r].pc = "calling"
                        /\ res'[r].callLog =
                               Append(res[r].callLog,
                                      res[r].strategies[Len(res[r].callLog) + 1].name)
                   ELSE /\ res'[r].pc = "done"
                        /\ res'[r].outcome.kind = "nomatch"]_vars

\* a request has failed and the resolution waits, with strategies left to try
C11_Witness ==
    \E r \in DOMAIN res :
        /\ res[r].pc = "delay"
        /\ res[r].lastReply = "failed"
        /\ Len(res[r].callLog) < Len(res[r].strategies)

\* C12: every resolution ends as a resolved article or as NoMatch, whatever
\* the catalog responses look like; there is no third, error outcome.
C12_OnlyResolvedOrNoMatch ==
    \A r \in DOMAIN res :
        res[r].pc = "done" => res[r].outcome.kind \in {"resolved", "nomatch"}

\* C13: a response is accepted as a match only if it reports availability
\* and carries an article payload; availability without an article payload
\* counts as unmatched and the search goes on.
C13_AcceptedOnlyWithArticle ==
    \A r \in DOMAIN res :
        /\ res[r].acceptedAt # 0 => res[r].firstAccepted.match \in Articles
        /\ res[r].foundArticle # NoReply => res[r].foundArticle.match \in Articles

\* C15: the session id is assigned at most once, while init() still awaits
\* createSession and so before any detection pass or catalog call; every
\* catalog call carries the instance's session id.
C15_OneSessionIdOnEveryCall ==
    /\ [](\A r \in DOMAIN res : \A i \in 1..Len(res[r].sessionLog) :
            res[r].sessionLog[i] = sessionId)
    /\ [](initPc = "session" =>
            /\ sessionId = "null"
            /\ obsTimers = 0 /\ TotalRechecks = 0 /\ button = "none"
            /\ \A r \in DOMAIN res : res[r].pc = "idle")
    /\ [][/\ sessionId' # sessionId => (initPc = "session" /\ initPc' = "ready")
          /\ initPc = "ready" => initPc' = "ready"]_vars

\* the second call of a resolution carries the session id obtained
C15_Witness ==
    /\ sessionId = "session-1"
    /\ \E r \in DOMAIN res :
           Len(res[r].sessionLog) = 2 /\ res[r].sessionLog[2] = "session-1"

\* C14: whatever becomes of the session request (success, an unsuccessful
\* reply, a network error, no reply at all), init() gets to its first
\* detection pass, so that a resolution can run; without a session the
\* catalog calls carry a null session id.
C14_DetectionStartsWithoutSession ==
    /\ <>(initPc = "ready")
    /\ [](\A r \in DOMAIN res : \A i \in 1..Len(res[r].sessionLog) :
            sessionId = "null" => res[r].sessionLog[i] = "null")

\* C16: extractKeywords returns at most 5 terms, none shorter than 4
\* characters, none from the stop-word list and none with a character that
\* is not a letter.
C16_KeywordsBounded ==
    fnOutput.applied = 1 =>
        LET kw == fnOutput.value
        IN  /\ Len(kw) <= 5
            /\ \A i \in 1..Len(kw) :
                   /\ Len(kw[i]) >= 4
                   /\ kw[i] \notin stopWords
                   /\ \A k \in 1..Len(kw[i]) : kw[i][k] \in LowerAlpha

\* six qualifying words went in, five keywords came out
C16_Witness ==
    /\ fnOutput.applied = 1
    /\ Len(fnInput.text) = 6
    /\ \A i \in 1..6 : fnInput.text[i] = Word1
    /\ Len(fnOutput.value) = 5

\* a token "DD Mon YYYY": two digits, a name of the month table, four digits
WellFormedToken(s) ==
    LET t == Tokens(s)
    IN  /\ Len(t) = 3
        /\ AllDigits(t[1]) /\ Len(t[1]) = 2
        /\ \E i \in 1..Len(months) : months[i][2] = t[2]
        /\ AllDigits(t[3]) /\ Len(t[3]) = 4

\* the current date in the canonical format
Today(e) ==
    DateToken(padStart2(NumToString(e.day)),
              getSwedishMonthName(padStart2(NumToString(e.month))),
              NumToString(e.year))

\* C17: normalizeDate is total: for every text it returns a well-formed
\* token of a two-digit day, a month name of the table and a four-digit year.
C17_NormalizeDateWellFormed ==
    fnOutput.applied >= 1 => WellFormedToken(fnOutput.value)

\* C18: for a text that is neither calendar-parseable nor contains a Swedish
\* month name normalizeDate returns the current date in the canonical format.
C18_FallbackIsToday ==
    ( /\ fnOutput.applied >= 1
      /\ ~JsDateParse(fnInput.text, fnInput.env.lenient).valid
      /\ FirstSwedishMonth(fnInput.text) = 0 ) =>
        fnOutput.value = Today(fnInput.env)

\* C19: normalizeDate is idempotent: applied to its own result it returns
\* that result, for every month of the table.
C19_NormalizeDateIdempotent ==
    fnOutput.applied = 2 => fnOutput.again = fnOutput.value

\* C20: strategies 1, 2, 4 and 5 are emitted exactly when their required
\* fields are non-empty (title, publication, date; title, publication;
\* author, publication, date; title), and the publication name is non-empty
\* exactly on svd and kungalvsposten.
C20_EmittedIffFieldsPresent ==
    genOutput.done =>
        LET a     == genInput.articleData
            pub   == genInput.site \in {"svd", "kungalvsposten"}
            names == Range(Names(genOutput.strategies))
        IN  /\ (getPublicationName(genInput.site) # "") <=> pub
            /\ (NameTitlePubDate \in names) <=>
                   (a.title # <<>> /\ pub /\ a.publishDate # <<>>)
            /\ (NameTitlePub \in names) <=> (a.title # <<>> /\ pub)
            /\ (NameAuthorPubDate \in names) <=>
                   (a.author # "" /\ pub /\ a.publishDate # <<>>)
            /\ (NameExactTitle \in names) <=> (a.title # <<>>)

\* on a supported site, an author and a date without a title give the author
\* strategy and none of the title strategies
C20_Witness ==
    /\ genOutput.done
    /\ genInput.site = "kungalvsposten"
    /\ genInput.articleData.title = <<>>
    /\ Names(genOutput.strategies) = << NameAuthorPubDate, NameUrl >>

\* C21: with an empty title and an empty author the generated list is not
\* empty: it is the URL fallback alone, whose request data is the page URL
\* and nothing else (no search_query), its query being the literal
\* 'url_search' and no boolean expression.
C21_SparseMetadataGivesUrlOnly ==
    ( /\ genOutput.done
      /\ genInput.articleData.title = <<>>
      /\ genInput.articleData.author = "" ) =>
        /\ Len(genOutput.strategies) = 1
        /\ LET s == genOutput.strategies[1]
           IN  /\ s.name = NameUrl
               /\ DOMAIN s.searchData = {"url"}
               /\ s.searchData.url = genInput.articleData.url
               /\ s.query = Query(<<>>, "", "", <<>>, <<>>, FALSE, "url_search")

\* a supported site's page with a date but neither title nor author
C21_Witness ==
    /\ genOutput.done
    /\ genInput.site = "svd"
    /\ genInput.articleData.title = <<>>
    /\ genInput.articleData.author = ""
    /\ genInput.articleData.publishDate # <<>>
    /\ Names(genOutput.strategies) = << NameUrl >>

\* this step starts a resolution (a click that is not turned away)
ResolutionStarted == \E r \in DOMAIN res : res[r].pc = "idle" /\ res'[r].pc # "idle"

\* this step is the firing of the button's 15 s timer
AutoHideFired == buttonTimer /\ ~buttonTimer' /\ ~ResolutionStarted

\* C22: a button that is shown stays in the page, with its auto-hide timer
\* pending, until the user clicks it or that timer fires; nothing left over
\* from an earlier button (a pending fade-out callback, an earlier timer)
\* removes it.
C22_ButtonStaysUntilClickOrTimer ==
    [][(button = "shown") =>
          ( \/ (button' = "shown" /\ buttonTimer')
            \/ (button' = "fading" /\ (ResolutionStarted \/ AutoHideFired)) )]_vars

\* C23: assuming timers fire, a button that is on the page is eventually
\* removed from it, whether or not the user clicks it.
C23_ButtonEventuallyRemoved ==
    (button # "none") ~> (button = "none")

\* a button fades out after its timer fired, with no resolution under way
C23_Witness ==
    /\ button = "fading"
    /\ ~buttonTimer
    /\ fadeTimers = 1
    /\ ~isProcessing
    /\ notification = "none"
    /\ \A r \in DOMAIN res : res[r].pc = "idle"

\* this step is a first detection pass: init() calling checkForPaywall(), or
\* a timer of the MutationObserver callback doing so
FirstPassStep == initPc' # initPc \/ obsTimers' < obsTimers

\* C24: a first detection pass never shows the button; the button only
\* appears in the step of a deferred recheck, and a deferred recheck is only
\* ever pending for a first pass that found a signal on the page it read.
C24_ButtonOnlyAfterFirstPassAndRecheck ==
    /\ [](\A first \in Pages :
            recheckTimers[first] > 0 => PaywallDetected(currentSite, first))
    /\ [][( /\ FirstPassStep => (button' = button /\ buttonTimer' = buttonTimer)
            /\ ButtonCreated =>
                 \E first \in Pages :
                     RecheckStep(first) /\ PaywallDetected(currentSite, first) )]_vars

\* the button is on the page, put there by a confirming recheck, and no
\* resolution has been started
C24_Witness ==
    /\ button = "shown"
    /\ buttonTimer
    /\ paywallState = "Confirmed"
    /\ notification = "none"
    /\ \A r \in DOMAIN res : res[r].pc = "idle"

\* C25: on SVD a metadata tag counts as a paywall signal only with a
\* restrictive value: a document whose only indicator is an lp:paywall or
\* lp:type tag with another value is not detected by the first pass.
C25_OnlyRestrictiveMetadataCounts ==
    ( /\ fnOutput.applied >= 1
      /\ currentSite = "svd"
      /\ page \cap {"meta", "elem", "text", "schema"} = {} ) =>
        ~fnOutput.value

\* C26: a first detection pass that finds a signal schedules exactly one
\* deferred recheck, on either site, and one that finds none schedules none;
\* a deferred recheck uses up its own timer and schedules no other.
C26_OneRecheckPerFirstPass ==
    [][( /\ FirstPassStep =>
              TotalRechecks' = TotalRechecks
                                 + (IF PaywallDetected(currentSite, page) THEN 1 ELSE 0)
         /\ \A first \in Pages :
              RecheckStep(first) =>
                  /\ TotalRechecks' = TotalRechecks - 1
                  /\ \A other \in Pages \ {first} :
                         recheckTimers'[other] = recheckTimers[other] )]_vars

\* init()'s first pass found a signal on SVD: one recheck is pending
C26_Witness ==
    /\ currentSite = "svd"
    /\ initPc = "ready"
    /\ paywallState = "Undecided"
    /\ PaywallDetected(currentSite, page)
    /\ recheckTimers[page] = 1
    /\ TotalRechecks = 1
    /\ obsTimers = 0

\* instance i of the content script has been replaced: a later one exists
CsSuperseded(i) == \E j \in DOMAIN cs.inst : j > i /\ cs.inst[j].pc # "none"

\* C27: in the content script, once a navigation has created a new instance
\* the earlier one does nothing more that can be observed: it runs no
\* detection pass and inserts no button, and the document never holds more
\* than one unlock button.
C27_OldContextHasNoContinuation ==
    /\ [](Cardinality({ i \in DOMAIN cs.inst : cs.inst[i].button }) <= 1)
    /\ [][\A i \in DOMAIN cs.inst :
            CsSuperseded(i) =>
                /\ cs'.inst[i].obsTimers >= cs.inst[i].obsTimers
                /\ cs.inst[i].pc = cs'.inst[i].pc
                /\ cs'.inst[i].button => cs.inst[i].button]_vars

\* C28: when every catalog call returns or fails, a resolution that has
\* started ends; it makes at most one call per strategy of its list (at most
\* 7), nothing cancels or restarts it on the way (its list stays, its calls
\* only go forward), and it ends with exactly one outcome.
C28_ResolutionTerminates ==
    /\ \A r \in 1..MaxResolutions :
           (res[r].pc \in {"calling", "delay"}) ~> (res[r].pc = "done")
    /\ [](\A r \in DOMAIN res :
            /\ Len(res[r].strategies) <= 7
            /\ Len(res[r].callLog) <= Len(res[r].strategies)
            /\ \A i \in 1..Len(res[r].callLog) :
                   res[r].callLog[i] = res[r].strategies[i].name
            /\ res[r].pc \in {"calling", "delay"} => res[r].outcome.kind = "none"
            /\ res[r].pc = "done" =>
                   res[r].outcome.kind \in {"resolved", "nomatch", "error"})
    /\ [][\A r \in DOMAIN res :
            /\ (res[r].pc \in {"calling", "delay"}) =>
                   /\ res'[r].pc \in {"calling", "delay", "done"}
                   /\ res'[r].strategies = res[r].strategies
                   /\ Len(res'[r].callLog) >= Len(res[r].callLog)
                   /\ SubSeq(res'[r].callLog, 1, Len(res[r].callLog)) = res[r].callLog
            /\ (res[r].pc = "done" /\ res'[r] # res[r]) => res'[r] = IdleSlot]_vars

\* a resolution ended with the article of its third and last strategy
C28_Witness ==
    \E r \in DOMAIN res :
        /\ res[r].pc = "done"
        /\ Len(res[r].strategies) = 3
        /\ res[r].acceptedAt = 3
        /\ res[r].outcome.kind = "resolved"

\* the strategies of the generated list that carry the given name
StrategiesNamed(name) ==
    { i \in 1..Len(genOutput.strategies) : genOutput.strategies[i].name = name }

\* C29: the generated list holds the Keywords+Publication strategy exactly
\* when the publication is not empty and the title yields at least 2
\* keywords; its query is the AND-group of at most the first 3 keywords, in
\* the order of extraction and without wildcard, ANDed with the publication.
C29_KeywordsPublication ==
    genOutput.done =>
        LET pub == getPublicationName(genInput.site)
            kw  == extractKeywords(genInput.articleData.title)
            at  == StrategiesNamed(NameKeywordsPub)
        IN  /\ Cardinality(at) = IF pub # "" /\ Len(kw) >= 2 THEN 1 ELSE 0
            /\ \A i \in at :
                   LET q == genOutput.strategies[i].query
                   IN  /\ q = genOutput.strategies[i].searchData.search_query
                       /\ q.publication = pub
                       /\ q.title = <<>> /\ q.author = "" /\ q.date = <<>>
                       /\ q.literal = "" /\ ~q.wildcard
                       /\ Len(q.group) = Min(3, Len(kw))
                       /\ \A k \in 1..Len(q.group) : q.group[k] = kw[k]

\* a headline with four keywords on a known site: the group holds three
C29_Witness ==
    /\ genOutput.done
    /\ Len(extractKeywords(genInput.articleData.title)) = 4
    /\ \E i \in StrategiesNamed(NameKeywordsPub) :
           Len(genOutput.strategies[i].query.group) = 3

\* C30: the generated list holds the Wildcard+Publication strategy exactly
\* when the publication is not empty and the title yields at least 1
\* keyword; its query is the AND-group of at most the first 3 keywords, each
\* with the wildcard suffix, ANDed with the publication.
C30_WildcardPublication ==
    genOutput.done =>
        LET pub == getPublicationName(genInput.site)
            kw  == extractKeywords(genInput.articleData.title)
            at  == StrategiesNamed(NameWildcardPub)
        IN  /\ Cardinality(at) = IF pub # "" /\ Len(kw) >= 1 THEN 1 ELSE 0
            /\ \A i \in at :
                   LET q == genOutput.strategies[i].query
                   IN  /\ q = genOutput.strategies[i].searchData.search_query
                       /\ q.publication = pub
                       /\ q.title = <<>> /\ q.author = "" /\ q.date = <<>>
                       /\ q.literal = "" /\ q.wildcard
                       /\ Len(q.group) = Min(3, Len(kw))
                       /\ \A k \in 1..Len(q.group) : q.group[k] = kw[k]

\* a headline with a single keyword on a known site: the wildcard strategy
\* is there and the keyword strategy is not
C30_Witness ==
    /\ genOutput.done
    /\ Len(extractKeywords(genInput.articleData.title)) = 1
    /\ StrategiesNamed(NameWildcardPub) # {}
    /\ StrategiesNamed(NameKeywordsPub) = {}

\* the positions of the text whose lower-cased word passes the filter
QualifyingAt(text) == { i \in 1..Len(text) : IsKeyword(toLowerCase(text[i])) }

\* the k-th qualifying position from the left
NthQualifying(text, k) ==
    CHOOSE i \in QualifyingAt(text) :
        Cardinality({ j \in QualifyingAt(text) : j < i }) = k - 1

\* C31: extractKeywords returns exactly the first 5 qualifying words of the
\* lower-cased text, in their order in the text: the k-th keyword is the
\* k-th qualifying word from the left, and nothing else is returned.
C31_FirstFiveInOrder ==
    fnOutput.applied = 1 =>
        LET text == fnInput.text
            kw   == fnOutput.value
        IN  /\ Len(kw) = Min(5, Cardinality(QualifyingAt(text)))
            /\ \A k \in 1..Len(kw) : kw[k] = toLowerCase(text[NthQualifying(text, k)])

\* six qualifying words, the first unlike the others: the first five come
\* out, led by the first word of the text in lower case
C31_Witness ==
    /\ fnOutput.applied = 1
    /\ Len(fnInput.text) = 6
    /\ Cardinality(QualifyingAt(fnInput.text)) = 6
    /\ fnInput.text[1] = Word1
    /\ \A i \in 2..6 : fnInput.text[i] = <<"h","ö","j","a">>
    /\ fnOutput.value = <<toLowerCase(Word1)>> \o [i \in 1..4 |-> <<"h","ö","j","a">>]

\* C32: a first detection pass that finds no signal completes and leaves
\* everything as it was: it schedules no recheck, shows no button and
\* confirms nothing (init() goes on to observePageChanges); for a site that
\* is not known no document is found to carry a signal, by the first pass
\* or by a recheck; and the paywall is only ever confirmed by the recheck of
\* a first pass that found a signal.
C32_NoSignalMeansAbsent ==
    /\ [](\A p \in DetectPages :
            ~PaywallDetected("unknown", p) /\ ~RecheckPaywall("unknown", p, p))
    /\ [][( /\ (FirstPassStep /\ ~PaywallDetected(currentSite, page)) =>
                 /\ recheckTimers' = recheckTimers
                 /\ button' = button
                 /\ buttonTimer' = buttonTimer
                 /\ paywallState' = paywallState
                 /\ initPc' = "ready"
            /\ (paywallState' = "Confirmed" /\ paywallState # "Confirmed") =>
                 \E first \in Pages :
                     RecheckStep(first) /\ PaywallDetected(currentSite, first) )]_vars

\* init() has run its first pass on an SVD document without any signal and
\* installed the observer: nothing is pending, nothing is shown
C32_Witness ==
    /\ currentSite = "svd"
    /\ page = {}
    /\ initPc = "ready"
    /\ sessionId = "session-1"
    /\ obsTimers = 0
    /\ TotalRechecks = 0
    /\ button = "none"
    /\ ~buttonTimer
    /\ fadeTimers = 0
    /\ paywallState = "Undecided"

\* documents whose signals both the first pass and its recheck find
ConfirmablePages ==
    { p \in Pages : PaywallDetected(currentSite, p) /\ RecheckPaywall(currentSite, p, p) }

\* a resolution has just ended without an article
EndedWithoutArticle ==
    \E r \in DOMAIN res :
        res[r].pc = "done" /\ res[r].outcome.kind \in {"nomatch", "error"}

ShowUnlockButtonCalled ==
    \E first \in Pages : RecheckStep(first) /\ RecheckPaywall(currentSite, page, first)

\* C34: the document never holds more than one unlock button, and it holds
\* one exactly while this.button is set; showUnlockButton() called while a
\* button exists, shown or fading out, adds no button, leaves the 15 s timer
\* as it is and changes nothing else of the script or the document.
C34_AtMostOneButton ==
    /\ [](domButtons <= 1 /\ (domButtons = 1 <=> button # "none"))
    /\ [][(ShowUnlockButtonCalled /\ button # "none") =>
            UNCHANGED << button, domButtons, buttonTimer, fadeTimers, obsTimers,
                         isProcessing, res, notification, displayTimers, page,
                         sessionId, initPc >>]_vars

\* the button is fading out after its 15 s timer, and the recheck set after
\* its insertion has run on the way and confirmed the paywall: one button
C34_Witness ==
    /\ button = "fading"
    /\ domButtons = 1
    /\ fadeTimers = 1
    /\ ~buttonTimer
    /\ ~isProcessing
    /\ notification = "none"
    /\ paywallState = "Confirmed"
    /\ PaywallDetected(currentSite, page)
    /\ obsTimers = 0
    /\ TotalRechecks = 0

\* the resolution that is running
Running(r) == res[r].pc \in {"calling", "delay"}

\* C35: while a resolution is in progress a click changes nothing, so every
\* step taken then is a step of the running resolution, of a timer or of
\* the page: no resolution is started, a catalog call is only added by the
\* running resolution at its own next strategy, a fade-out only starts from
\* the 15 s timer, and the notification only changes to a search message
\* with a step of the running resolution.
C35_ClickWhileBusyHasNoEffect ==
    [][isProcessing =>
         ( /\ ~ResolutionStarted
           /\ \A r \in DOMAIN res :
                Len(res'[r].callLog) > Len(res[r].callLog) =>
                    /\ Running(r)
                    /\ res'[r].idx = res[r].idx + 1
                    /\ Len(res'[r].callLog) = Len(res[r].callLog) + 1
           /\ \A r \in DOMAIN res :
                (res[r].pc = "calling" /\ res'[r].pc = "calling") => res'[r] = res[r]
           /\ fadeTimers' > fadeTimers => (buttonTimer /\ ~buttonTimer')
           /\ (notification' = "loading" /\ notification # "loading") =>
                \E r \in DOMAIN res : Running(r) /\ res'[r] # res[r] )]_vars

\* the button is on the page, fading out, while the running resolution
\* pauses between two calls: a click is possible and is turned away
C35_Witness ==
    /\ isProcessing
    /\ button = "fading"
    /\ \E r \in DOMAIN res : res[r].pc = "delay" /\ Len(res[r].callLog) = 1

\* in the generated list, a strategy named `loose` stands after position i
FollowedBy(i, loose) == \E j \in StrategiesNamed(loose) : j > i

\* C36: in every generated list, Title+Publication+Date is followed by
\* Title+Publication and by the exact title, and Keywords+Publication is
\* followed by Wildcard+Publication.
C36_RestrictiveFollowedByLooser ==
    genOutput.done =>
        /\ \A i \in StrategiesNamed(NameTitlePubDate) :
               FollowedBy(i, NameTitlePub) /\ FollowedBy(i, NameExactTitle)
        /\ \A i \in StrategiesNamed(NameKeywordsPub) :
               FollowedBy(i, NameWildcardPub)

\* a dated headline with two keywords and no author: both restrictive
\* strategies and their looser variants, without the author strategy
C36_Witness ==
    /\ genOutput.done
    /\ Len(extractKeywords(genInput.articleData.title)) = 2
    /\ Names(genOutput.strategies) =
           << NameTitlePubDate, NameTitlePub, NameKeywordsPub, NameExactTitle,
              NameWildcardPub, NameUrl >>

\* C37: on SVD a document whose only indicators are the '/a/' path of an
\* article URL and the lp:paywall_user tag is not detected by the first
\* pass, and no recheck of it is run.
C37_UrlAndUserTagAreDiagnostic ==
    (currentSite = "svd" /\ page \subseteq {"userMeta", "premiumUrl"}) =>
        /\ fnOutput.applied >= 1 => ~fnOutput.value
        /\ fnOutput.applied < 2

\* the first pass has read an SVD article page with an lp:paywall_user tag
\* and nothing else, and found no paywall
C37_Witness ==
    /\ currentSite = "svd"
    /\ page = {"userMeta", "premiumUrl"}
    /\ fnOutput.applied = 1
    /\ ~fnOutput.value

====
